---- MODULE Spec2Model ----
(***************************************************************************)
(* Model of the dispatching IAM message handler of aos_core_iam_cpp:       *)
(* ProtectedMessageHandler (protectedmessagehandler.cpp) on top of         *)
(* PublicMessageHandler (publicmessagehandler.cpp/.hpp).                    *)
(*                                                                         *)
(* gRPC serves every RPC on its own thread; the threads share the handler  *)
(* object (mMutex, mClose, mRetryCondVar) and the collaborators            *)
(* (NodeInfoProvider, NodeManager, ProvisionManager, NodeController).      *)
(* A step of the model is what one thread does between two points where    *)
(* other threads can observe or interfere: a mutex acquisition, a call of  *)
(* a collaborator, a call on a node stream, a condition-variable wait.     *)
(***************************************************************************)
EXTENDS Integers, FiniteSets, Sequences, TLC

----------------------------------------------------------------------------
(* Bounds of the model *)

\* Number of RPCs the clients issue in one behaviour.
MaxRpcs == 2

\* Number of Close/Start calls the server makes in one behaviour.
MaxCtl == 2

----------------------------------------------------------------------------
(* Program constants *)

\* Variant: the loop bound is off by one.
cRequestRetryMaxTryOffByOne == 3 + 1

\* publicmessagehandler.hpp:138
cRequestRetryMaxTry == 3

\* publicmessagehandler.hpp:137 (seconds)
cRequestRetryTimeout == 10

\* Variant: a missing node stream is reported as Unavailable.
cStreamNotFoundErrorUnavailable == "Unavailable"

\* protectedmessagehandler.cpp:30, the status a request() lambda returns
\* when the target node has no stream handler (ErrorEnum::eNotFound).
cStreamNotFoundError == "NotFound"

----------------------------------------------------------------------------
(* Domains *)

\* gRPC server threads that execute RPCs concurrently.
Threads == {"t1", "t2"}

\* mNodeInfo.mNodeID of the main node, as the tests set it up.
OwnNodeID == "node0"

\* A secondary node.
RemoteNodeID == "node1"

\* Values of the node_id field of a request.
NodeIDs == {"", OwnNodeID, RemoteNodeID}

\* Nodes known to the NodeManager.
Nodes == {OwnNodeID, RemoteNodeID}

\* aos::NodeStatusEnum
NodeStatuses == {"unprovisioned", "provisioned", "paused"}

\* RPCs of the protected services that carry a node_id.
StatusOps == {"PauseNode", "ResumeNode", "FinishProvisioning", "Deprovision"}

ReturnOps == {"GetCertTypes", "StartProvisioning", "CreateKey", "ApplyCert"}

NodeOps == StatusOps \cup ReturnOps

\* RPCs whose local execution starts with a ProvisionManager call.
ProvisionOps == NodeOps \ {"PauseNode", "ResumeNode"}

\* Outcomes of one call on a node stream handler (handler->X(request, response, timeout)).
RemoteResults == {"OK", "Unavailable", "TimedOut"}

\* Error field of a response body.
ErrorInfos == {"none", "failed"}

----------------------------------------------------------------------------
VARIABLES
    pc,         \* position of each RPC thread
    op,         \* RPC the thread executes
    nodeID,     \* request->node_id()
    subject,    \* CreateKey: subject passed on (local or forwarded)
    retry,      \* loop index i of RequestWithRetry
    status,     \* grpc::Status the thread holds / returns
    respErr,    \* error field of the response body
    mMutex,     \* owner of PublicMessageHandler::mMutex ("none" when free)
    mClose,     \* PublicMessageHandler::mClose
    notified,   \* waiters of mRetryCondVar that notify_one has picked
    wokenBy,    \* what ended the last wait_for of the thread
    attempts,   \* number of request() calls of the current RPC
    waits,      \* number of wait_for calls of the current RPC
    lookups,    \* GetNodeStreamHandler calls of the current RPC
    frames,     \* requests put on the node stream by the current RPC
    pmCalls,    \* ProvisionManager calls of the current RPC
    nipCalls,   \* NodeInfoProvider::SetNodeStatus calls of the current RPC
    nmCalls,    \* NodeManager::SetNodeStatus calls of the current RPC
    pmOk,       \* result of the ProvisionManager call of the current RPC
    collabErr,  \* some collaborator call of the current RPC returned an error
    ctl,        \* position of the server thread that calls Close / Start
    ctlCount,   \* Close/Start calls made so far
    rpcCount,   \* RPCs started so far
    streams,    \* node ids with a registered node stream handler
    nipStatus,  \* status held by NodeInfoProvider (own node)
    nmStatus,   \* status recorded by NodeManager, per node
    certWriter,    \* CertWriter created by the SubscribeCertChanged RPC of the thread
    mCertWriters,  \* PublicMessageHandler::mCertWriters
    closedWriters, \* CertWriters on which Close() has been called
    swRunning,     \* mNodeChangedController / mSubjectsChangedController accept streams
    swUnblocked,   \* threads in StreamWriter::HandleStream that Close has released
    streamCut,     \* attempt whose call the end of the node stream cancelled (0: none);
                   \* once the call has returned only a cut of the first attempt is kept
    reqSubject,    \* CreateKey: request->subject()
    identCalls,    \* IdentHandler::GetSystemID calls of the current RPC
    passedSubject, \* CreateKey: subject received by ProvisionManager or put on the stream
    permissions,   \* RegisterInstance: <<services, largest permission list>> of the request
    permCalls,     \* PermHandler::RegisterInstance calls of the current RPC
    enteredClosed, \* the subscription started after Close had returned and before any Start
    deprovisionedBefore, \* Deprovision: the thread's previous RPC deprovisioned the same node
    closeRuns,     \* Close calls completed since construction or the last Start
    passedTimeout, \* timeout (seconds) of the last call the RPC made on a node stream
    registration,  \* last HandleRegisterNodeStream call: endpoint, node, status, result
    dispatched,    \* subject lists passed to SubjectsChanged so far
    received,      \* messages written to the stream of the thread's subscription
    subscribedAt,  \* number of lists dispatched before the thread's RPC started
    mIsConnected,         \* PocoWSClient: the connected flag
    mWSClientErrorEvent,  \* PocoWSClient: "none", "CLOSED" or "FAILED"
    rxRunning,            \* PocoWSClient: the ReceiveFrames thread is running
    sent,                 \* frames written to the websocket by sendFrame
    req,                  \* the SendRequest call in progress and its RequestParams
    nextId,               \* number of request ids generated
    wsCall,               \* the last call of a PocoWSClient method and what it did
    lastConnOp,           \* last of: successful Connect, Close, Disconnect
    wsCount,              \* calls made by the client thread
    rxCount,              \* frames received
    delivery,             \* the kind of the last frame received and the consumers it was given to
    hcPc,                 \* VISIdentifier: position of the HandleConnection thread
    hcExc,                \* why HandleConnection left the try block
    hcLast,               \* last websocket operation HandleConnection called
    mStop,                \* mStopHandleSubjectsChangedThread is set
    visPc,                \* VISIdentifier: Start / Stop progress
    mWSClientIsConnected, \* VISIdentifier: the connected event
    mSubscriptionMap,     \* VISSubscriptions: registered subscription ids
    mSubjects,            \* VISIdentifier: cached subjects
    note,                 \* the last frame given to HandleSubscription
    observerCalls,        \* lists the last HandleSubscription passed to the observer
    app,                  \* App: initialisation progress, config and modules
    mHandlers,            \* NodeController: the registered node stream handlers
    getPc,                \* VISIdentifier: position of the thread in GetSystemID
    getReq,               \* the SendRequest call of GetSystemID and its RequestParams
    getCount,             \* GetSystemID calls made so far
    getResult,            \* what the last GetSystemID call returned
    mSystemId,            \* VISIdentifier: cached system id (0 when empty)
    connEpoch,            \* connections HandleConnection has established
    rxBlocked             \* the frame whose handler waits for the mutex of VISIdentifier

vars == <<pc, op, nodeID, subject, retry, status, respErr, mMutex, mClose,
          notified, wokenBy, attempts, waits, lookups, frames, pmCalls,
          nipCalls, nmCalls, pmOk, collabErr, ctl, ctlCount, rpcCount,
          streams, nipStatus, nmStatus, certWriter, mCertWriters,
          closedWriters, swRunning, swUnblocked, streamCut, reqSubject,
          identCalls, passedSubject, permissions, permCalls, enteredClosed,
          deprovisionedBefore, closeRuns, passedTimeout, registration,
          dispatched, received, subscribedAt,
          mIsConnected, mWSClientErrorEvent, rxRunning, sent, req, nextId,
          wsCall, lastConnOp, wsCount, rxCount, delivery,
          hcPc, hcExc, hcLast, mStop, visPc, mWSClientIsConnected,
          mSubscriptionMap, mSubjects, note, observerCalls, app, mHandlers,
          getPc, getReq, getCount, getResult, mSystemId, connEpoch, rxBlocked>>

subVars == <<certWriter, mCertWriters, closedWriters, swRunning, swUnblocked>>

rpcVars == <<pc, op, nodeID, subject, retry, status, respErr, wokenBy,
             attempts, waits, lookups, frames, pmCalls, nipCalls, nmCalls, pmOk,
             collabErr, streamCut, reqSubject, identCalls, passedSubject,
             permissions, permCalls, enteredClosed, deprovisionedBefore,
             passedTimeout>>

\* History of the current RPC of each thread that most steps leave alone.
histVars == <<streamCut, reqSubject, identCalls, permissions, permCalls,
              enteredClosed, deprovisionedBefore>>

\* What a PocoWSClient method reads and writes.
connVars == <<mIsConnected, mWSClientErrorEvent, rxRunning, sent, wsCall, lastConnOp>>

\* PocoWSClient.
wsVars == <<connVars, req, nextId, wsCount, rxCount, delivery>>

\* The HandleConnection thread of VISIdentifier.
hcVars == <<hcPc, hcExc, hcLast>>

\* VISIdentifier.
identVars == <<hcVars, mStop, visPc, mWSClientIsConnected, mSubscriptionMap,
               mSubjects, note, observerCalls>>

\* A caller of VISIdentifier::GetSystemID, and the receive thread while it
\* waits for the mutex of VISIdentifier.
getVars == <<getPc, getReq, getCount, getResult, mSystemId, connEpoch, rxBlocked>>

\* The identifier plugin and the application around the server.
visVars == <<wsVars, identVars, app, getVars>>

\* Node registration and the modules outside the server.
envVars == <<registration, visVars, mHandlers>>

\* Notifications and what the subscribers' streams received.
fanVars == <<dispatched, received, subscribedAt>>

\* State the steps of an RPC other than a subscription leave alone.
extVars == <<envVars, fanVars>>

\* The state of the IAM server and its two message handlers.
iamVars == <<rpcVars, subVars, mMutex, mClose, notified, ctl, ctlCount, rpcCount,
             streams, nipStatus, nmStatus, closeRuns, registration, fanVars, mHandlers>>

----------------------------------------------------------------------------
(* Pure helpers *)

\* Variant: an empty node_id is not taken for the own node.
ProcessOnThisNodeNoEmpty(n) == n = OwnNodeID

\* PublicMessageHandler::ProcessOnThisNode
ProcessOnThisNode(n) == n = "" \/ n = OwnNodeID

\* Status a status-changing RPC passes to SetNodeStatus.
TargetStatus(o) ==
    CASE o = "PauseNode" -> "paused"
      [] o = "ResumeNode" -> "provisioned"
      [] o = "FinishProvisioning" -> "provisioned"
      [] o = "Deprovision" -> "unprovisioned"
      [] OTHER -> "none"

\* Variant: the node id of the request is passed on as it is.
NodeManagerIDAsGiven(n) == n

\* Node id SetNodeStatus passes to NodeManager.
NodeManagerID(n) == IF n = "" THEN OwnNodeID ELSE n

\* No node has tried to register yet.
NoRegistration == [endpoint |-> "none", node |-> "none", status |-> "none", result |-> "none",
                   superseded |-> FALSE]

\* No frame: the response of a request that has none yet.
NoFrame == [action |-> "none", requestId |-> 0, subscriptionId |-> "", valid |-> TRUE, list |-> <<>>]

\* No SendRequest in progress.
NoReq == [state |-> "idle", owner |-> "none", id |-> 0, response |-> NoFrame,
          elapsed |-> 0, error |-> "none", pending |-> FALSE]

\* No SendRequest of GetSystemID in progress; value is the system id the
\* response carries, 0 when it carries none.
NoGetReq == [state |-> "idle", owner |-> "none", id |-> 0, response |-> NoFrame,
             elapsed |-> 0, error |-> "none", pending |-> FALSE, value |-> 0]

\* GetSystemID has not returned yet.
NoGetResult == [value |-> 0, error |-> "none"]

\* No frame has been received.
NoDelivery == [class |-> "none", to |-> {}]

\* No PocoWSClient method has been called.
NoWsCall == [name |-> "none", connected |-> FALSE, last |-> "none", message |-> "",
             error |-> "none", noop |-> TRUE, written |-> 0]

\* HandleSubscription has not been called.
NoNote == [frame |-> NoFrame, registered |-> FALSE, cached |-> <<>>, after |-> <<>>]

\* The application before its configuration is parsed.
NoApp == [pc |-> "parse", identifier |-> "", modules |-> <<>>, mIdentifier |-> "null",
          registered |-> 0]

----------------------------------------------------------------------------
(* Initial state: handler constructed and initialised, no RPC in progress *)

Init ==
    /\ pc = [t \in Threads |-> "idle"]
    /\ op = [t \in Threads |-> "none"]
    /\ nodeID = [t \in Threads |-> ""]
    /\ subject = [t \in Threads |-> "none"]
    /\ retry = [t \in Threads |-> 0]
    /\ status = [t \in Threads |-> "OK"]
    /\ respErr = [t \in Threads |-> "none"]
    /\ mMutex = "none"
    /\ mClose = FALSE
    /\ notified = {}
    /\ wokenBy = [t \in Threads |-> "none"]
    /\ attempts = [t \in Threads |-> 0]
    /\ waits = [t \in Threads |-> 0]
    /\ lookups = [t \in Threads |-> 0]
    /\ frames = [t \in Threads |-> 0]
    /\ pmCalls = [t \in Threads |-> 0]
    /\ nipCalls = [t \in Threads |-> 0]
    /\ nmCalls = [t \in Threads |-> 0]
    /\ pmOk = [t \in Threads |-> FALSE]
    /\ collabErr = [t \in Threads |-> FALSE]
    /\ ctl = "idle"
    /\ ctlCount = 0
    /\ rpcCount = 0
    /\ streams = {}
    /\ nipStatus = "unprovisioned"
    /\ nmStatus = [n \in Nodes |-> "unprovisioned"]
    /\ certWriter = [t \in Threads |-> 0]
    /\ mCertWriters = {}
    /\ closedWriters = {}
    /\ swRunning = TRUE
    /\ swUnblocked = {}
    /\ streamCut = [t \in Threads |-> 0]
    /\ reqSubject = [t \in Threads |-> "none"]
    /\ identCalls = [t \in Threads |-> 0]
    /\ passedSubject = [t \in Threads |-> "none"]
    /\ permissions = [t \in Threads |-> <<0, 0>>]
    /\ permCalls = [t \in Threads |-> 0]
    /\ enteredClosed = [t \in Threads |-> FALSE]
    /\ deprovisionedBefore = [t \in Threads |-> FALSE]
    /\ closeRuns = 0
    /\ passedTimeout = [t \in Threads |-> 0]
    /\ registration = NoRegistration
    /\ dispatched = <<>>
    /\ received = [t \in Threads |-> <<>>]
    /\ subscribedAt = [t \in Threads |-> 0]
    /\ mIsConnected = FALSE
    /\ mWSClientErrorEvent = "none"
    /\ rxRunning = FALSE
    /\ sent = 0
    /\ req = NoReq
    /\ nextId = 0
    /\ wsCall = NoWsCall
    /\ lastConnOp = "none"
    /\ wsCount = 0
    /\ rxCount = 0
    /\ delivery = NoDelivery
    /\ getPc = "idle"
    /\ getReq = NoGetReq
    /\ getCount = 0
    /\ getResult = NoGetResult
    /\ mSystemId = 0
    /\ connEpoch = 0
    /\ rxBlocked = NoFrame
    /\ hcPc = "idle"
    /\ hcExc = "none"
    /\ hcLast = "none"
    /\ mStop = FALSE
    /\ visPc = "init"
    /\ mWSClientIsConnected = FALSE
    /\ mSubscriptionMap = {}
    /\ mSubjects = <<>>
    /\ note = NoNote
    /\ observerCalls = <<>>
    /\ app = NoApp
    /\ mHandlers = {}

----------------------------------------------------------------------------
(* Entry of an RPC: the handler reads node_id and routes the request *)

\* First position of handler o for node id n: the forwarding branch
\* (RequestWithRetry) or the first local collaborator call.
EntryPc(o, n) ==
    IF ~ProcessOnThisNode(n) THEN "lock"
    ELSE IF o \in {"PauseNode", "ResumeNode"} THEN "set_nip"
    ELSE "pm_call"

\* A gRPC thread picks up request o{node_id: n}; subj is the subject the
\* handler passes on (only CreateKey has one), rs the subject of the
\* request, ic the number of GetSystemID calls made before routing and perm
\* the size of the permissions map (only RegisterInstance has one).
EnterWith(t, o, n, subj, entry, err, rs, ic, perm) ==
    /\ pc[t] \in {"idle", "done"}
    /\ rpcCount < MaxRpcs
    /\ rpcCount' = rpcCount + 1
    /\ pc' = [pc EXCEPT ![t] = entry]
    /\ op' = [op EXCEPT ![t] = o]
    /\ nodeID' = [nodeID EXCEPT ![t] = n]
    /\ subject' = [subject EXCEPT ![t] = subj]
    /\ retry' = [retry EXCEPT ![t] = 0]
    /\ status' = [status EXCEPT ![t] = "OK"]
    /\ respErr' = [respErr EXCEPT ![t] = err]
    /\ wokenBy' = [wokenBy EXCEPT ![t] = "none"]
    /\ attempts' = [attempts EXCEPT ![t] = 0]
    /\ waits' = [waits EXCEPT ![t] = 0]
    /\ lookups' = [lookups EXCEPT ![t] = 0]
    /\ frames' = [frames EXCEPT ![t] = 0]
    /\ pmCalls' = [pmCalls EXCEPT ![t] = 0]
    /\ nipCalls' = [nipCalls EXCEPT ![t] = 0]
    /\ nmCalls' = [nmCalls EXCEPT ![t] = 0]
    /\ pmOk' = [pmOk EXCEPT ![t] = FALSE]
    /\ collabErr' = [collabErr EXCEPT ![t] = (err # "none")]
    /\ certWriter' = [certWriter EXCEPT ![t] = IF o = "SubscribeCertChanged" THEN rpcCount + 1 ELSE 0]
    /\ swUnblocked' = swUnblocked \ {t}
    /\ streamCut' = [streamCut EXCEPT ![t] = 0]
    /\ reqSubject' = [reqSubject EXCEPT ![t] = rs]
    /\ identCalls' = [identCalls EXCEPT ![t] = ic]
    /\ passedSubject' = [passedSubject EXCEPT ![t] = "none"]
    /\ passedTimeout' = [passedTimeout EXCEPT ![t] = 0]
    /\ permissions' = [permissions EXCEPT ![t] = perm]
    /\ permCalls' = [permCalls EXCEPT ![t] = 0]
    /\ enteredClosed' = [enteredClosed EXCEPT ![t] =
                            o = "SubscribeCertChanged" /\ mClose /\ ctl = "idle"]
    /\ deprovisionedBefore' = [deprovisionedBefore EXCEPT ![t] =
                                  /\ o = "Deprovision" /\ op[t] = "Deprovision"
                                  /\ NodeManagerID(n) = NodeManagerID(nodeID[t])
                                  /\ pc[t] = "done" /\ status[t] = "OK"
                                  /\ respErr[t] = "none"
                                  /\ nmStatus[NodeManagerID(n)] = "unprovisioned"]
    /\ UNCHANGED <<mMutex, mClose, notified, ctl, ctlCount, streams, nipStatus, nmStatus,
                   mCertWriters, closedWriters, swRunning, closeRuns>>
    /\ received' = [received EXCEPT ![t] = <<>>]
    /\ subscribedAt' = [subscribedAt EXCEPT ![t] = Len(dispatched)]
    /\ UNCHANGED <<envVars, dispatched>>

\* An RPC without a subject and without a permissions map.
Enter(t, o, n, subj, entry, err) ==
    EnterWith(t, o, n, subj, entry, err, "none", 0, <<0, 0>>)

PauseNode(t, n) == Enter(t, "PauseNode", n, "none", EntryPc("PauseNode", n), "none")

ResumeNode(t, n) == Enter(t, "ResumeNode", n, "none", EntryPc("ResumeNode", n), "none")

GetCertTypes(t, n) == Enter(t, "GetCertTypes", n, "none", EntryPc("GetCertTypes", n), "none")

StartProvisioning(t, n) == Enter(t, "StartProvisioning", n, "none", EntryPc("StartProvisioning", n), "none")

FinishProvisioning(t, n) == Enter(t, "FinishProvisioning", n, "none", EntryPc("FinishProvisioning", n), "none")

Deprovision(t, n) == Enter(t, "Deprovision", n, "none", EntryPc("Deprovision", n), "none")

ApplyCert(t, n) == Enter(t, "ApplyCert", n, "none", EntryPc("ApplyCert", n), "none")

\* Number of GetSystemID calls CreateKey makes for request subject rs.
GetSystemIDCalls(rs) == IF rs = "" THEN 1 ELSE 0

\* Subject CreateKey works with when GetSystemID succeeds: the system id
\* for an empty subject, the request's subject otherwise.
ResolvedSubject(rs) == IF rs = "" THEN "system-id" ELSE rs

\* CreateKey resolves the subject before routing: an empty subject is
\* replaced by IdentHandler.GetSystemID(); if that fails the RPC returns
\* OK with the error in the response.  mIdentHandler is set from a
\* reference in Init and is never null.
CreateKey(t, n, rs, sysIdOk) ==
    IF rs = "" /\ ~sysIdOk
    THEN EnterWith(t, "CreateKey", n, "", "done", "failed", rs, 1, <<0, 0>>)
    ELSE EnterWith(t, "CreateKey", n, ResolvedSubject(rs), EntryPc("CreateKey", n), "none",
                   rs, GetSystemIDCalls(rs), <<0, 0>>)

----------------------------------------------------------------------------
(* PublicMessageHandler::RequestWithRetry, run by the forwarding branch *)

\* Variant: only an Unavailable attempt is retried.
AttemptEndsLoopUnlessUnavailable(st) == st # "Unavailable"

\* An attempt's result that ends the loop at once (status.ok()).
AttemptEndsLoop(st) == st = "OK"

\* Where the handler continues when RequestWithRetry has returned st:
\* status-changing RPCs go on to SetNodeStatus when st is OK, every other
\* case returns st to the caller.
AfterRetryPc(o, st) ==
    IF o \in StatusOps /\ st = "OK" THEN "set_nm" ELSE "done"

\* return st: the unique_lock is released by its destructor.
RetryReturn(t, st) ==
    /\ pc' = [pc EXCEPT ![t] = AfterRetryPc(op[t], st)]
    /\ status' = [status EXCEPT ![t] = st]
    /\ mMutex' = "none"

\* Variant: the loop does not test mClose.
LoopHeadNoCloseTest(t, k) ==
    /\ retry' = [retry EXCEPT ![t] = k]
    /\ IF k >= cRequestRetryMaxTry
       THEN RetryReturn(t, status[t])
       ELSE /\ pc' = [pc EXCEPT ![t] = "request"]
            /\ mMutex' = t
            /\ UNCHANGED status

\* Head of the for loop with index k, evaluated with mMutex held.
LoopHead(t, k) ==
    /\ retry' = [retry EXCEPT ![t] = k]
    /\ IF k >= cRequestRetryMaxTry
       THEN RetryReturn(t, status[t])
       ELSE IF mClose
            THEN RetryReturn(t, "WrongState")
            ELSE /\ pc' = [pc EXCEPT ![t] = "request"]
                 /\ mMutex' = t
                 /\ UNCHANGED status

\* std::unique_lock lock {mMutex}; then the first evaluation of the loop head.
RequestWithRetry(t) ==
    /\ pc[t] = "lock"
    /\ mMutex = "none"
    /\ LoopHead(t, 0)
    /\ UNCHANGED <<histVars, passedSubject, passedTimeout, closeRuns, op, nodeID, subject, respErr, mClose, notified, wokenBy,
                   attempts, waits, lookups, frames, pmCalls, nipCalls, nmCalls,
                   pmOk, collabErr, ctl, ctlCount, rpcCount, streams, nipStatus, nmStatus>>
    /\ UNCHANGED subVars
    /\ UNCHANGED extVars

\* mRetryCondVar.wait_for(lock, cRequestRetryTimeout, pred) after a failed
\* attempt with result st: the predicate is tested first, then the thread
\* releases mMutex and blocks.
EnterWait(t, st) ==
    /\ waits' = [waits EXCEPT ![t] = @ + 1]
    /\ IF mClose
       THEN /\ retry' = [retry EXCEPT ![t] = @ + 1]
            /\ RetryReturn(t, IF retry[t] + 1 >= cRequestRetryMaxTry THEN st ELSE "WrongState")
       ELSE /\ pc' = [pc EXCEPT ![t] = "waiting"]
            /\ status' = [status EXCEPT ![t] = st]
            /\ mMutex' = "none"
            /\ UNCHANGED retry

\* Variant: the result of the first attempt is returned whatever it is.
AfterAttemptNoRetry(t, st) ==
    /\ RetryReturn(t, st)
    /\ UNCHANGED <<retry, waits>>

\* if (status = request(); status.ok()) return status; else wait_for(...).
AfterAttempt(t, st) ==
    IF AttemptEndsLoop(st)
    THEN /\ RetryReturn(t, st)
         /\ UNCHANGED <<retry, waits>>
    ELSE EnterWait(t, st)

\* protectedmessagehandler.hpp:81 (seconds)
cDefaultTimeout == 60

\* protectedmessagehandler.hpp:82 (seconds)
cProvisioningTimeout == 300

\* Variant: every forwarded call uses the default timeout.
CallTimeoutAlwaysDefault(o) == cDefaultTimeout

\* Timeout the forwarding lambda of handler o passes to handler->X(...).
CallTimeout(o) ==
    CASE o = "PauseNode" -> cDefaultTimeout
      [] o = "ResumeNode" -> cDefaultTimeout
      [] o = "GetCertTypes" -> cDefaultTimeout
      [] o = "StartProvisioning" -> cProvisioningTimeout
      [] o = "FinishProvisioning" -> cProvisioningTimeout
      [] o = "Deprovision" -> cProvisioningTimeout
      [] o = "CreateKey" -> cDefaultTimeout
      [] o = "ApplyCert" -> cDefaultTimeout
      [] OTHER -> 0

\* Variant: the request is forwarded as received (*request instead of keyRequest).
ForwardedSubjectOriginal(t) == reqSubject[t]

\* Subject of the request a forwarding lambda puts on the stream: CreateKey
\* copies the request and sets the resolved subject (keyRequest.set_subject).
ForwardedSubject(t) == subject[t]

\* Variant: the handler found by the first attempt is used by every attempt.
GetNodeStreamHandlerOnce(t) ==
    IF attempts[t] = 0 THEN nodeID[t] \in streams ELSE frames[t] > 0

\* GetNodeController()->GetNodeStreamHandler(nodeID) in the lambda: the
\* registry is read by every attempt.
GetNodeStreamHandler(t) == nodeID[t] \in streams

\* request(): the lambda looks the node stream handler up; without one the
\* attempt fails with cStreamNotFoundError, otherwise the request is put on
\* the stream and the thread blocks in handler->X(request, response, timeout).
RequestLookup(t) ==
    /\ pc[t] = "request"
    /\ attempts' = [attempts EXCEPT ![t] = @ + 1]
    /\ lookups' = [lookups EXCEPT ![t] = @ + 1]
    /\ IF GetNodeStreamHandler(t)
       THEN /\ pc' = [pc EXCEPT ![t] = "in_call"]
            /\ frames' = [frames EXCEPT ![t] = @ + 1]
            /\ passedSubject' = [passedSubject EXCEPT ![t] = ForwardedSubject(t)]
            /\ passedTimeout' = [passedTimeout EXCEPT ![t] = CallTimeout(op[t])]
            /\ UNCHANGED <<retry, status, mMutex, waits>>
       ELSE /\ AfterAttempt(t, cStreamNotFoundError)
            /\ UNCHANGED <<frames, passedSubject, passedTimeout>>
    /\ UNCHANGED <<histVars, closeRuns, op, nodeID, subject, respErr, mClose, notified, wokenBy,
                   pmCalls, nipCalls, nmCalls, pmOk, collabErr, ctl, ctlCount, rpcCount,
                   streams, nipStatus, nmStatus>>
    /\ UNCHANGED subVars
    /\ UNCHANGED extVars

\* Results the call in flight of thread t can return: a call cancelled by the
\* end of its stream returns Unavailable.
CallResults(t) ==
    IF streamCut[t] # 0 /\ streamCut[t] = attempts[t] THEN {"Unavailable"} ELSE RemoteResults

\* handler->X(request, response, timeout) returns res; with OK the response
\* body carries the secondary's error field e.
RequestReturn(t, res, e) ==
    /\ pc[t] = "in_call"
    /\ res \in CallResults(t)
    /\ res = "OK" \/ e = "none"
    /\ respErr' = [respErr EXCEPT ![t] = e]
    /\ AfterAttempt(t, res)
    /\ streamCut' = [streamCut EXCEPT ![t] = IF @ = 1 THEN 1 ELSE 0]
    /\ UNCHANGED <<reqSubject, identCalls, permissions, permCalls, enteredClosed,
                   deprovisionedBefore, passedSubject, passedTimeout, closeRuns, op, nodeID, subject, mClose, notified, wokenBy, attempts,
                   lookups, frames, pmCalls, nipCalls, nmCalls, pmOk, collabErr, ctl,
                   ctlCount, rpcCount, streams, nipStatus, nmStatus>>
    /\ UNCHANGED subVars
    /\ UNCHANGED extVars

\* wait_for ends because notify_one picked this waiter: the thread
\* reacquires mMutex and tests the predicate; if it is false it waits on.
RetryWakeNotified(t) ==
    /\ pc[t] = "waiting"
    /\ t \in notified
    /\ mMutex = "none"
    /\ notified' = notified \ {t}
    /\ IF mClose
       THEN /\ wokenBy' = [wokenBy EXCEPT ![t] = "signal"]
            /\ LoopHead(t, retry[t] + 1)
       ELSE UNCHANGED <<wokenBy, pc, retry, status, mMutex>>
    /\ UNCHANGED <<histVars, passedSubject, passedTimeout, closeRuns, op, nodeID, subject, respErr, mClose, attempts, waits,
                   lookups, frames, pmCalls, nipCalls, nmCalls, pmOk, collabErr, ctl,
                   ctlCount, rpcCount, streams, nipStatus, nmStatus>>
    /\ UNCHANGED subVars
    /\ UNCHANGED extVars

\* wait_for ends because cRequestRetryTimeout has elapsed.
RetryWakeTimeout(t) ==
    /\ pc[t] = "waiting"
    /\ mMutex = "none"
    /\ notified' = notified \ {t}
    /\ wokenBy' = [wokenBy EXCEPT ![t] = "timeout"]
    /\ LoopHead(t, retry[t] + 1)
    /\ UNCHANGED <<histVars, passedSubject, passedTimeout, closeRuns, op, nodeID, subject, respErr, mClose, attempts, waits,
                   lookups, frames, pmCalls, nipCalls, nmCalls, pmOk, collabErr, ctl,
                   ctlCount, rpcCount, streams, nipStatus, nmStatus>>
    /\ UNCHANGED subVars
    /\ UNCHANGED extVars

----------------------------------------------------------------------------
(* Local execution *)

\* Variant: the status is set whatever ProvisionManager returned.
AfterProvisionPcAlways(o, ok) ==
    IF o \in {"FinishProvisioning", "Deprovision"} THEN "set_nip" ELSE "done"

\* Position after the ProvisionManager call of handler o returned ok:
\* FinishProvisioning and Deprovision go on to SetNodeStatus on success,
\* everything else returns.
AfterProvisionPc(o, ok) ==
    IF o \in {"FinishProvisioning", "Deprovision"} /\ ok THEN "set_nip" ELSE "done"

\* Variant: every local failure is turned into a non-OK status.
LocalStatusAllFail(o, ok) ==
    IF ~ok THEN "NotFound" ELSE "OK"

\* grpc::Status after the local ProvisionManager call: only GetCertTypes
\* turns a failure into a non-OK status (cStreamNotFoundError).
LocalStatus(o, ok) ==
    IF o = "GetCertTypes" /\ ~ok THEN "NotFound" ELSE "OK"

\* Error field after the local ProvisionManager call (SetErrorInfo).
LocalErrorInfo(o, ok) ==
    IF o # "GetCertTypes" /\ ~ok THEN "failed" ELSE "none"

\* mProvisionManager->X(...) of the local branch returns ok.  For ApplyCert
\* ok also covers ConvertSerialToProto, whose error is reported the same way.
ProvisionManagerCall(t, ok) ==
    /\ pc[t] = "pm_call"
    /\ pmCalls' = [pmCalls EXCEPT ![t] = @ + 1]
    /\ pmOk' = [pmOk EXCEPT ![t] = ok]
    /\ collabErr' = [collabErr EXCEPT ![t] = ~ok]
    /\ pc' = [pc EXCEPT ![t] = AfterProvisionPc(op[t], ok)]
    /\ status' = [status EXCEPT ![t] = LocalStatus(op[t], ok)]
    /\ respErr' = [respErr EXCEPT ![t] = LocalErrorInfo(op[t], ok)]
    /\ passedSubject' = [passedSubject EXCEPT ![t] = subject[t]]
    /\ UNCHANGED <<histVars, passedTimeout, closeRuns, op, nodeID, subject, retry, mMutex, mClose, notified,
                   wokenBy, attempts, waits, lookups, frames, nipCalls, nmCalls,
                   ctl, ctlCount, rpcCount, streams, nipStatus, nmStatus>>
    /\ UNCHANGED subVars
    /\ UNCHANGED extVars

\* PublicMessageHandler::SetNodeStatus, first half: on this node
\* mNodeInfoProvider->SetNodeStatus(status); an error is returned to the
\* handler, which puts it in the response and returns OK.
SetNodeStatusProvider(t, ok) ==
    /\ pc[t] = "set_nip"
    /\ nipCalls' = [nipCalls EXCEPT ![t] = @ + 1]
    /\ collabErr' = [collabErr EXCEPT ![t] = @ \/ ~ok]
    /\ IF ok
       THEN /\ nipStatus' = TargetStatus(op[t])
            /\ pc' = [pc EXCEPT ![t] = "set_nm"]
            /\ UNCHANGED respErr
       ELSE /\ pc' = [pc EXCEPT ![t] = "done"]
            /\ respErr' = [respErr EXCEPT ![t] = "failed"]
            /\ UNCHANGED nipStatus
    /\ UNCHANGED <<histVars, passedSubject, passedTimeout, closeRuns, op, nodeID, subject, retry, status, mMutex, mClose,
                   notified, wokenBy, attempts, waits, lookups, frames, pmCalls,
                   nmCalls, pmOk, ctl, ctlCount, rpcCount, streams, nmStatus>>
    /\ UNCHANGED subVars
    /\ UNCHANGED extVars

\* PublicMessageHandler::SetNodeStatus, second half:
\* mNodeManager->SetNodeStatus(nodeID.empty() ? mNodeInfo.mNodeID : nodeID, status).
SetNodeStatusManager(t, ok) ==
    /\ pc[t] = "set_nm"
    /\ nmCalls' = [nmCalls EXCEPT ![t] = @ + 1]
    /\ collabErr' = [collabErr EXCEPT ![t] = @ \/ ~ok]
    /\ pc' = [pc EXCEPT ![t] = "done"]
    /\ IF ok
       THEN /\ nmStatus' = [nmStatus EXCEPT ![NodeManagerID(nodeID[t])] = TargetStatus(op[t])]
            /\ UNCHANGED respErr
       ELSE /\ respErr' = [respErr EXCEPT ![t] = "failed"]
            /\ UNCHANGED nmStatus
    /\ UNCHANGED <<histVars, passedSubject, passedTimeout, closeRuns, op, nodeID, subject, retry, status, mMutex, mClose,
                   notified, wokenBy, attempts, waits, lookups, frames, pmCalls,
                   nipCalls, pmOk, ctl, ctlCount, rpcCount, streams, nipStatus>>
    /\ UNCHANGED subVars
    /\ UNCHANGED extVars

----------------------------------------------------------------------------
(* IAMPermissionsService: RegisterInstance *)

\* Capacity of the StaticArray the handler converts the permissions map to
\* (protectedmessagehandler.cpp:436), scaled down.
cMaxNumServices == 2

\* Capacity of FunctionServicePermissions::mPermissions, filled by PushBack
\* (protectedmessagehandler.cpp:448), scaled down.
mPermissionsMaxSize == 1

\* Permissions maps of a request: <<number of services, size of the largest
\* permission list of a service>>.
PermissionMaps ==
    {perm \in (0..(cMaxNumServices + 1)) \X (0..(mPermissionsMaxSize + 1)) :
        perm[1] = 0 => perm[2] = 0}

\* Variant: the number of services is not checked.
PermissionsFitAnyServices(perm) == perm[2] <= mPermissionsMaxSize

\* The conversion loop succeeds: EmplaceBack for every service and
\* PushBack for every permission of a service.
PermissionsFit(perm) ==
    perm[1] <= cMaxNumServices /\ perm[2] <= mPermissionsMaxSize

\* ProtectedMessageHandler::RegisterInstance: the RPC carries no node_id.
RegisterInstance(t, perm) ==
    EnterWith(t, "RegisterInstance", "", "none", "ri_convert", "none", "none", 0, perm)

\* The conversion of request->permissions(): when an array is full the
\* handler returns the error of EmplaceBack / PushBack as the status.
ConvertPermissions(t) ==
    /\ pc[t] = "ri_convert"
    /\ IF PermissionsFit(permissions[t])
       THEN /\ pc' = [pc EXCEPT ![t] = "perm_call"]
            /\ UNCHANGED status
       ELSE /\ pc' = [pc EXCEPT ![t] = "done"]
            /\ status' = [status EXCEPT ![t] = "NoMemory"]
    /\ UNCHANGED <<histVars, passedSubject, passedTimeout, closeRuns, op, nodeID, subject, retry, respErr,
                   wokenBy, attempts, waits, lookups, frames, pmCalls, nipCalls, nmCalls,
                   pmOk, collabErr, mMutex, mClose, notified, ctl, ctlCount, rpcCount,
                   streams, nipStatus, nmStatus>>
    /\ UNCHANGED subVars
    /\ UNCHANGED extVars

\* GetPermHandler()->RegisterInstance(aosInstance, *aosPermissions): its
\* error becomes the status, otherwise the secret is returned with OK.
PermHandlerRegisterInstance(t, ok) ==
    /\ pc[t] = "perm_call"
    /\ permCalls' = [permCalls EXCEPT ![t] = @ + 1]
    /\ collabErr' = [collabErr EXCEPT ![t] = ~ok]
    /\ status' = [status EXCEPT ![t] = IF ok THEN "OK" ELSE "Failed"]
    /\ pc' = [pc EXCEPT ![t] = "done"]
    /\ UNCHANGED <<streamCut, reqSubject, identCalls, passedSubject, permissions,
                   enteredClosed, deprovisionedBefore, passedTimeout, closeRuns, op, nodeID, subject, retry,
                   respErr, wokenBy, attempts, waits, lookups, frames, pmCalls, nipCalls,
                   nmCalls, pmOk, mMutex, mClose, notified, ctl, ctlCount, rpcCount,
                   streams, nipStatus, nmStatus>>
    /\ UNCHANGED subVars
    /\ UNCHANGED extVars

----------------------------------------------------------------------------
(* Server-streaming subscriptions *)

SubscribeOps == {"SubscribeCertChanged", "SubscribeNodeChanged", "SubscribeSubjectsChanged"}

\* PublicMessageHandler::SubscribeCertChanged: a CertWriter is created.
SubscribeCertChanged(t) == Enter(t, "SubscribeCertChanged", "", "none", "cw_push", "none")

\* mCertWriters.push_back(certWriter) under mCertWritersLock.
CertWriterPush(t) ==
    /\ pc[t] = "cw_push"
    /\ mCertWriters' = mCertWriters \cup {certWriter[t]}
    /\ pc' = [pc EXCEPT ![t] = "cw_subscribe"]
    /\ UNCHANGED <<histVars, passedSubject, passedTimeout, closeRuns, op, nodeID, subject, retry, status, respErr, wokenBy, attempts,
                   waits, lookups, frames, pmCalls, nipCalls, nmCalls, pmOk, collabErr,
                   mMutex, mClose, notified, ctl, ctlCount, rpcCount, streams,
                   nipStatus, nmStatus, certWriter, closedWriters, swRunning, swUnblocked>>
    /\ UNCHANGED extVars

\* mCertProvider->SubscribeCertChanged(type, *certWriter): on error the RPC
\* returns the error; otherwise the thread enters certWriter->HandleStream.
CertProviderSubscribe(t, ok) ==
    /\ pc[t] = "cw_subscribe"
    /\ pc' = [pc EXCEPT ![t] = IF ok THEN "cw_stream" ELSE "done"]
    /\ status' = [status EXCEPT ![t] = IF ok THEN @ ELSE "Failed"]
    /\ collabErr' = [collabErr EXCEPT ![t] = ~ok]
    /\ UNCHANGED <<histVars, passedSubject, passedTimeout, closeRuns, op, nodeID, subject, retry, respErr, wokenBy, attempts,
                   waits, lookups, frames, pmCalls, nipCalls, nmCalls, pmOk,
                   mMutex, mClose, notified, ctl, ctlCount, rpcCount, streams,
                   nipStatus, nmStatus>>
    /\ UNCHANGED subVars
    /\ UNCHANGED extVars

\* The stream of a subscription ends and, for a certificate subscription,
\* UnsubscribeCertChanged and the removal from mCertWriters follow: on an
\* Unsubscribe error the RPC returns before the removal.
StreamEnd(t, ok) ==
    /\ IF pc[t] = "cw_stream"
       THEN /\ status' = [status EXCEPT ![t] = IF ok THEN "OK" ELSE "Failed"]
            /\ collabErr' = [collabErr EXCEPT ![t] = ~ok]
            /\ mCertWriters' = IF ok THEN mCertWriters \ {certWriter[t]} ELSE mCertWriters
       ELSE /\ ok
            /\ UNCHANGED <<status, collabErr, mCertWriters>>
    /\ pc' = [pc EXCEPT ![t] = "done"]
    /\ UNCHANGED <<histVars, passedSubject, passedTimeout, closeRuns, op, nodeID, subject, retry, respErr, wokenBy, attempts,
                   waits, lookups, frames, pmCalls, nipCalls, nmCalls, pmOk,
                   mMutex, mClose, notified, ctl, ctlCount, rpcCount, streams,
                   nipStatus, nmStatus, certWriter, closedWriters, swRunning, swUnblocked>>
    /\ UNCHANGED extVars

\* HandleStream returns because the writer has been closed.
HandleStreamClosed(t, ok) ==
    /\ \/ pc[t] = "cw_stream" /\ certWriter[t] \in closedWriters
       \/ pc[t] = "sw_stream" /\ t \in swUnblocked
    /\ StreamEnd(t, ok)

\* HandleStream returns because the client has cancelled the call.
ClientCancel(t, ok) ==
    /\ pc[t] \in {"cw_stream", "sw_stream"}
    /\ StreamEnd(t, ok)

\* PublicMessageHandler::SubscribeNodeChanged / SubscribeSubjectsChanged:
\* HandleStream of a stream writer; a closed writer rejects the stream.
SubscribeStream(t, o) ==
    Enter(t, o, "", "none", IF swRunning THEN "sw_stream" ELSE "done", "none")

SubscribeNodeChanged(t) == SubscribeStream(t, "SubscribeNodeChanged")

SubscribeSubjectsChanged(t) == SubscribeStream(t, "SubscribeSubjectsChanged")

----------------------------------------------------------------------------
(* Notifications written to the subscribers' streams *)

\* Number of SubjectsChanged notifications in one behaviour.
MaxNotifications == 2

\* Subject lists the identifier reports.
SubjectLists == {<<"a", "b">>, <<"b", "a">>}

\* common::pbconvert::ConvertToProto(messages): an iamproto::Subjects
\* message with one subjects entry per element, in the order of the array.
ConvertToProto(messages) == [subjects |-> [i \in 1..Len(messages) |-> messages[i]]]

\* Threads whose stream is held by the stream writer serving RPC o.
Subscribers(o) ==
    {t \in Threads : op[t] = o /\ pc[t] = "sw_stream" /\ t \notin swUnblocked}

\* StreamWriter::WriteToStreams(msg) of the writer serving RPC o: msg is
\* written once to every stream the writer holds; a stream whose write
\* fails is dropped and its HandleStream returns.
WriteToStreams(o, msg) ==
    \E failed \in SUBSET Subscribers(o) :
        /\ received' = [t \in Threads |->
                          IF t \in Subscribers(o) \ failed
                          THEN Append(received[t], msg) ELSE received[t]]
        /\ swUnblocked' = swUnblocked \cup failed

\* Variant: the message is written to the node-changed streams.
SubjectsChangedWrongController(messages) ==
    /\ Len(dispatched) < MaxNotifications
    /\ dispatched' = Append(dispatched, messages)
    /\ WriteToStreams("SubscribeNodeChanged", ConvertToProto(messages))
    /\ UNCHANGED <<rpcVars, mMutex, mClose, notified, ctl, ctlCount, rpcCount, streams,
                   nipStatus, nmStatus, closeRuns, certWriter, mCertWriters,
                   closedWriters, swRunning, subscribedAt>>
    /\ UNCHANGED envVars

\* PublicMessageHandler::SubjectsChanged, the identifier's observer
\* callback: the list is converted and written to the subjects streams.
SubjectsChanged(messages) ==
    /\ Len(dispatched) < MaxNotifications
    /\ dispatched' = Append(dispatched, messages)
    /\ WriteToStreams("SubscribeSubjectsChanged", ConvertToProto(messages))
    /\ UNCHANGED <<rpcVars, mMutex, mClose, notified, ctl, ctlCount, rpcCount, streams,
                   nipStatus, nmStatus, closeRuns, certWriter, mCertWriters,
                   closedWriters, swRunning, subscribedAt>>
    /\ UNCHANGED envVars

----------------------------------------------------------------------------
(* Start / Close of the handler, called by the server thread *)

\* Threads blocked in wait_for that no notification has picked yet.
Waiters == {t \in Threads : pc[t] = "waiting" /\ t \notin notified}

\* mRetryCondVar.notify_one(): one waiter, if there is one, is picked.
NotifyTargets == IF Waiters = {} THEN {{}} ELSE {{w} : w \in Waiters}

\* The server calls Close(); the call blocks on mMutex.
CloseCall ==
    /\ ctl = "idle"
    /\ ctlCount < MaxCtl
    /\ ctl' = "close"
    /\ ctlCount' = ctlCount + 1
    /\ UNCHANGED <<rpcVars, mMutex, mClose, notified, rpcCount, streams,
                   nipStatus, nmStatus, closeRuns>>
    /\ UNCHANGED subVars
    /\ UNCHANGED extVars

\* Variant: the writers are closed but the vector is not cleared.
CloseKeepsWriters ==
    /\ ctl = "close"
    /\ mMutex = "none"
    /\ swRunning' = FALSE
    /\ swUnblocked' = swUnblocked \cup {t \in Threads : pc[t] = "sw_stream"}
    /\ closedWriters' = closedWriters \cup mCertWriters
    /\ UNCHANGED <<certWriter, mCertWriters>>
    /\ mClose' = TRUE
    /\ \E ws \in NotifyTargets : notified' = notified \cup ws
    /\ ctl' = "idle"
    /\ closeRuns' = closeRuns + 1
    /\ UNCHANGED <<rpcVars, mMutex, ctlCount, rpcCount, streams, nipStatus, nmStatus>>
    /\ UNCHANGED extVars

\* PublicMessageHandler::Close with mMutex acquired: the two stream
\* writers are closed, every CertWriter of mCertWriters is closed and the
\* vector cleared, mClose = true and notify_one; then the lock_guard
\* releases mMutex.
Close ==
    /\ ctl = "close"
    /\ mMutex = "none"
    /\ swRunning' = FALSE
    /\ swUnblocked' = swUnblocked \cup {t \in Threads : pc[t] = "sw_stream"}
    /\ closedWriters' = closedWriters \cup mCertWriters
    /\ mCertWriters' = {}
    /\ UNCHANGED certWriter
    /\ mClose' = TRUE
    /\ \E ws \in NotifyTargets : notified' = notified \cup ws
    /\ ctl' = "idle"
    /\ closeRuns' = closeRuns + 1
    /\ UNCHANGED <<rpcVars, mMutex, ctlCount, rpcCount, streams, nipStatus, nmStatus>>
    /\ UNCHANGED extVars

\* PublicMessageHandler::Start: takes mMutex, starts the two stream
\* writers and resets mClose.
Start ==
    /\ ctl = "idle"
    /\ ctlCount < MaxCtl
    /\ mMutex = "none"
    /\ swRunning' = TRUE
    /\ UNCHANGED <<certWriter, mCertWriters, closedWriters, swUnblocked>>
    /\ mClose' = FALSE
    /\ ctlCount' = ctlCount + 1
    /\ closeRuns' = 0
    /\ UNCHANGED <<rpcVars, mMutex, notified, ctl, rpcCount, streams,
                   nipStatus, nmStatus>>
    /\ UNCHANGED extVars

----------------------------------------------------------------------------
(* NodeController: registration of node streams (secondary nodes) *)

\* A secondary node registers its stream (HandleRegisterNodeStream).
RegisterNode(n) ==
    /\ n \notin streams
    /\ streams' = streams \cup {n}
    /\ mHandlers' = mHandlers \cup {[node |-> n, endpoint |-> "protected", status |-> "provisioned"]}
    /\ UNCHANGED <<rpcVars, mMutex, mClose, notified, ctl, ctlCount, rpcCount,
                   nipStatus, nmStatus, closeRuns>>
    /\ UNCHANGED subVars
    /\ UNCHANGED <<registration, visVars, fanVars>>

\* publicmessagehandler.hpp:136
cAllowedStatusesPublic == {"unprovisioned"}

\* Variant: the protected endpoint admits a node in any status.
cAllowedStatusesProtectedAny == {"unprovisioned", "provisioned", "paused"}

\* protectedmessagehandler.hpp:83
cAllowedStatusesProtected == {"provisioned", "paused"}

\* Calls in flight on the stream of node n are cancelled.
CutCalls(n) ==
    [t \in Threads |-> IF pc[t] = "in_call" /\ nodeID[t] = n THEN attempts[t] ELSE streamCut[t]]

\* Variant: the handler of an earlier registration of the node stays.
StoreHandlerKeepsPrevious(n, h) == mHandlers \cup {h}

\* The registry after handler h of node n is stored: a handler the node
\* registered before is superseded.
StoreHandler(n, h) == {g \in mHandlers : g.node # n} \cup {h}

\* NodeController::HandleRegisterNodeStream(allowedStatuses, stream, ...):
\* node n opens a stream on endpoint ep and reports status st; the stream is
\* registered when st is allowed and rejected otherwise. A stream the node
\* registered before is terminated and its calls in flight are cancelled.
HandleRegisterNodeStream(allowed, ep, n, st) ==
    /\ registration' = [endpoint |-> ep, node |-> n, status |-> st,
                         result |-> IF st \in allowed THEN "OK" ELSE "PermissionDenied",
                         superseded |-> (st \in allowed /\ n \in streams)]
    /\ mHandlers' = IF st \in allowed
                     THEN StoreHandler(n, [node |-> n, endpoint |-> ep, status |-> st])
                     ELSE mHandlers
    /\ streams' = {h.node : h \in mHandlers'}
    /\ streamCut' = IF st \in allowed /\ n \in streams THEN CutCalls(n) ELSE streamCut
    /\ UNCHANGED <<pc, op, nodeID, subject, retry, status, respErr, wokenBy,
                   attempts, waits, lookups, frames, pmCalls, nipCalls, nmCalls, pmOk,
                   collabErr, reqSubject, identCalls, passedSubject, permissions,
                   permCalls, enteredClosed, deprovisionedBefore, passedTimeout>>
    /\ UNCHANGED <<mMutex, mClose, notified, ctl, ctlCount, rpcCount,
                   nipStatus, nmStatus, closeRuns>>
    /\ UNCHANGED subVars
    /\ UNCHANGED fanVars
    /\ UNCHANGED visVars

\* PublicMessageHandler::RegisterNode
PublicRegisterNode(n, st) ==
    HandleRegisterNodeStream(cAllowedStatusesPublic, "public", n, st)

\* ProtectedMessageHandler::RegisterNode
ProtectedRegisterNode(n, st) ==
    HandleRegisterNodeStream(cAllowedStatusesProtected, "protected", n, st)

\* The stream of a secondary node ends: its handler is removed and the
\* calls in flight on it are cancelled.
StreamClosed(n) ==
    /\ n \in streams
    /\ streams' = streams \ {n}
    /\ mHandlers' = {h \in mHandlers : h.node # n}
    /\ streamCut' = CutCalls(n)
    /\ UNCHANGED <<pc, op, nodeID, subject, retry, status, respErr, wokenBy,
                   attempts, waits, lookups, frames, pmCalls, nipCalls, nmCalls, pmOk,
                   collabErr, reqSubject, identCalls, passedSubject, permissions,
                   permCalls, enteredClosed, deprovisionedBefore, passedTimeout>>
    /\ UNCHANGED <<mMutex, mClose, notified, ctl, ctlCount, rpcCount,
                   nipStatus, nmStatus, closeRuns>>
    /\ UNCHANGED subVars
    /\ UNCHANGED <<registration, visVars, fanVars>>

----------------------------------------------------------------------------------------------------------------------------------------
(* Specifications *)

\* Subjects of a CreateKey request: absent or given.
Subjects == {"", "subj"}

\* The thread that serves the RPCs when they arrive one after another.
Worker == "t1"

\* Steps of RequestWithRetry and of the local branches of thread t.
Step(t) ==
    \/ RequestWithRetry(t)
    \/ RequestLookup(t)
    \/ \E res \in RemoteResults, e \in ErrorInfos : RequestReturn(t, res, e)
    \/ RetryWakeTimeout(t)
    \/ \E ok \in BOOLEAN : ProvisionManagerCall(t, ok)
    \/ \E ok \in BOOLEAN : SetNodeStatusProvider(t, ok)
    \/ \E ok \in BOOLEAN : SetNodeStatusManager(t, ok)

\* Node streams come and go.
Environment ==
    \/ RegisterNode(RemoteNodeID)
    \/ StreamClosed(RemoteNodeID)

\* The handler serving every node RPC, one at a time, while the server
\* starts and closes it and secondary nodes connect and disconnect.
Next ==
    \/ \E n \in NodeIDs : PauseNode(Worker, n)
    \/ \E n \in NodeIDs : ResumeNode(Worker, n)
    \/ \E n \in NodeIDs : GetCertTypes(Worker, n)
    \/ \E n \in NodeIDs : StartProvisioning(Worker, n)
    \/ \E n \in NodeIDs : FinishProvisioning(Worker, n)
    \/ \E n \in NodeIDs : Deprovision(Worker, n)
    \/ \E n \in NodeIDs : ApplyCert(Worker, n)
    \/ \E n \in NodeIDs, s \in Subjects, ok \in BOOLEAN : CreateKey(Worker, n, s, ok)
    \/ \E perm \in PermissionMaps : RegisterInstance(Worker, perm)
    \/ ConvertPermissions(Worker)
    \/ \E ok \in BOOLEAN : PermHandlerRegisterInstance(Worker, ok)
    \/ Step(Worker)
    \/ RetryWakeNotified(Worker)
    \/ CloseCall
    \/ Close
    \/ Start
    \/ Environment

Spec == Init /\ [][Next]_vars

\* Concurrent status-changing RPCs on a started handler.
NextConc ==
    \/ \E t \in Threads, n \in NodeIDs : PauseNode(t, n)
    \/ \E t \in Threads, n \in NodeIDs : ResumeNode(t, n)
    \/ \E t \in Threads, n \in NodeIDs : FinishProvisioning(t, n)
    \/ \E t \in Threads, n \in NodeIDs : Deprovision(t, n)
    \/ \E t \in Threads : Step(t)
    \/ Environment

SpecConc == Init /\ [][NextConc]_vars

\* Concurrent forwarded RPCs while the server closes and restarts the handler.
NextShutdown ==
    \/ \E t \in Threads : GetCertTypes(t, RemoteNodeID)
    \/ \E t \in Threads : PauseNode(t, RemoteNodeID)
    \/ \E t \in Threads : RequestWithRetry(t)
    \/ \E t \in Threads : RequestLookup(t)
    \/ \E t \in Threads, res \in RemoteResults, e \in ErrorInfos : RequestReturn(t, res, e)
    \/ \E t \in Threads : RetryWakeTimeout(t)
    \/ \E t \in Threads : RetryWakeNotified(t)
    \/ \E t \in Threads, ok \in BOOLEAN : SetNodeStatusManager(t, ok)
    \/ \E t \in Threads : SubscribeCertChanged(t)
    \/ \E t \in Threads : SubscribeNodeChanged(t)
    \/ \E t \in Threads : SubscribeSubjectsChanged(t)
    \/ \E t \in Threads : CertWriterPush(t)
    \/ \E t \in Threads, ok \in BOOLEAN : CertProviderSubscribe(t, ok)
    \/ \E t \in Threads, ok \in BOOLEAN : HandleStreamClosed(t, ok)
    \/ \E t \in Threads, ok \in BOOLEAN : ClientCancel(t, ok)
    \/ CloseCall
    \/ Close
    \/ Start
    \/ Environment

SpecShutdown == Init /\ [][NextShutdown]_vars

\* One RPC thread serving forwarded calls and subscriptions while the server
\* closes the handler, closes it again or restarts it.
NextClose ==
    \/ GetCertTypes(Worker, RemoteNodeID)
    \/ RequestWithRetry(Worker)
    \/ RequestLookup(Worker)
    \/ \E res \in RemoteResults, e \in ErrorInfos : RequestReturn(Worker, res, e)
    \/ RetryWakeTimeout(Worker)
    \/ RetryWakeNotified(Worker)
    \/ SubscribeCertChanged(Worker)
    \/ SubscribeNodeChanged(Worker)
    \/ CertWriterPush(Worker)
    \/ \E ok \in BOOLEAN : CertProviderSubscribe(Worker, ok)
    \/ \E ok \in BOOLEAN : HandleStreamClosed(Worker, ok)
    \/ \E ok \in BOOLEAN : ClientCancel(Worker, ok)
    \/ CloseCall
    \/ Close
    \/ Start
    \/ Environment

SpecClose == Init /\ [][NextClose]_vars

\* Secondary nodes register on the two endpoints and drop their streams
\* while one RPC thread forwards status-changing requests to them.
NextNodes ==
    \/ \E st \in NodeStatuses : PublicRegisterNode(RemoteNodeID, st)
    \/ \E st \in NodeStatuses : ProtectedRegisterNode(RemoteNodeID, st)
    \/ StreamClosed(RemoteNodeID)
    \/ PauseNode(Worker, RemoteNodeID)
    \/ FinishProvisioning(Worker, RemoteNodeID)
    \/ RequestWithRetry(Worker)
    \/ RequestLookup(Worker)
    \/ \E res \in RemoteResults, e \in ErrorInfos : RequestReturn(Worker, res, e)
    \/ RetryWakeTimeout(Worker)
    \/ \E ok \in BOOLEAN : SetNodeStatusManager(Worker, ok)

SpecNodes == Init /\ [][NextNodes]_vars

----------------------------------------------------------------------------
(* PocoWSClient: the websocket client of the VIS identifier *)

\* Request ids generated in one behaviour.
MaxRequests == 2

\* Frames received from the VIS server in one behaviour.
MaxFrames == 3

\* Calls the client thread makes in one behaviour.
MaxWsCalls == 3

\* PocoWSClient::GetWebSocketTimeout, counted in ticks of the wait.
mWebSocketTimeout == 2

\* Capacity of the subjects array HandleSubjectsSubscription fills.
cMaxSubjectIDSize == 2

\* Subject lists a notification carries; the longest exceeds the capacity.
SubjectValues == {<<>>, <<"a">>, <<"b", "a">>, <<"a", "b", "c">>}

\* Subscription notifications; valid is FALSE when the value is no array.
Notifications ==
    {f \in [action : {"subscription"}, requestId : {0}, subscriptionId : {"", "s1", "s2"},
            valid : BOOLEAN, list : SubjectValues] : ~f.valid => f.list = <<>>}

\* Responses to requests; requestId 0 is the empty string.
Responses ==
    [action : {"subscribe"}, requestId : 0..MaxRequests, subscriptionId : {"", "s1", "s2"},
     valid : {TRUE}, list : {<<>>}]

\* A frame that is no JSON text, and a JSON object without action tag.
NotJson == "<not json>"
NoActionTag == "<no action tag>"

\* The requestId of a frame without requestId tag.
MissingRequestId == -1

\* Frames HandleResponse cannot route: no JSON, no action tag, and
\* responses whose requestId tag is missing (an empty requestId is the
\* requestId 0 of Responses).
Malformed ==
    {[action |-> a, requestId |-> 0, subscriptionId |-> "", valid |-> TRUE, list |-> <<>>] :
        a \in {NotJson, NoActionTag}}
    \cup {[action |-> "subscribe", requestId |-> MissingRequestId, subscriptionId |-> "s1",
            valid |-> TRUE, list |-> <<>>]}

\* Frames the VIS server sends.
Frames == Notifications \cup Responses \cup Malformed

\* Payloads of AsyncSendMessage: empty or not.
Messages == {"", "m"}

\* What a call of a PocoWSClient method found and did: the connected flag
\* and the last connection operation before it, the error it threw, whether
\* it left the connection as it was, and the frames it wrote.
WsRecord(name, message, error) ==
    [name |-> name, connected |-> mIsConnected, last |-> lastConnOp, message |-> message,
     error |-> error,
     noop |-> (mIsConnected' = mIsConnected /\ rxRunning' = rxRunning /\ sent' = sent),
     written |-> sent' - sent]

\* PocoWSClient::Connect throws when the session or the websocket cannot be
\* created.
ConnectThrows(ok) == ~mIsConnected /\ ~ok

\* Variant: Connect opens a new websocket even when connected.
PocoWSClientConnectAlways(ok) ==
    /\ ~rxRunning
    /\ IF ok
       THEN /\ mIsConnected' = TRUE
            /\ mWSClientErrorEvent' = "none"
            /\ rxRunning' = TRUE
       ELSE UNCHANGED <<mIsConnected, mWSClientErrorEvent, rxRunning>>
    /\ sent' = sent
    /\ lastConnOp' = IF ok THEN "Connect" ELSE lastConnOp
    /\ wsCall' = WsRecord("Connect", "", IF ok THEN "none" ELSE "eFailed")

\* PocoWSClient::Connect: returns at once when connected; otherwise joins
\* the receive thread, opens the websocket, resets the event and starts the
\* receive thread, or throws WSException eFailed.
PocoWSClientConnect(ok) ==
    /\ mIsConnected \/ ~rxRunning
    /\ IF ~mIsConnected /\ ok
       THEN /\ mIsConnected' = TRUE
            /\ mWSClientErrorEvent' = "none"
            /\ rxRunning' = TRUE
       ELSE UNCHANGED <<mIsConnected, mWSClientErrorEvent, rxRunning>>
    /\ sent' = sent
    /\ lastConnOp' = IF ConnectThrows(ok) THEN lastConnOp ELSE "Connect"
    /\ wsCall' = WsRecord("Connect", "", IF ConnectThrows(ok) THEN "eFailed" ELSE "none")

\* PocoWSClient::Close: shuts the websocket down when connected, clears the
\* flag and posts the CLOSED event.
PocoWSClientClose ==
    /\ mIsConnected' = FALSE
    /\ mWSClientErrorEvent' = "CLOSED"
    /\ UNCHANGED <<rxRunning, sent>>
    /\ lastConnOp' = "Close"
    /\ wsCall' = WsRecord("Close", "", "none")

\* PocoWSClient::Disconnect: returns at once when not connected; otherwise
\* shuts down and closes the websocket and clears the flag.
PocoWSClientDisconnect ==
    /\ IF ~mIsConnected THEN UNCHANGED mIsConnected ELSE mIsConnected' = FALSE
    /\ UNCHANGED <<mWSClientErrorEvent, rxRunning, sent>>
    /\ lastConnOp' = "Disconnect"
    /\ wsCall' = WsRecord("Disconnect", "", "none")

\* AsyncSendMessage throws when the client is not connected or sendFrame
\* fails; an empty message returns before either.
AsyncThrows(message, ok) == message # "" /\ (~mIsConnected \/ ~ok)

\* Variant: the message is written without the test of the connected flag.
AsyncSendMessageUnchecked(message, ok) ==
    /\ IF message = "" THEN UNCHANGED <<mWSClientErrorEvent, sent>>
       ELSE IF ok THEN sent' = sent + 1 /\ UNCHANGED mWSClientErrorEvent
       ELSE mWSClientErrorEvent' = "FAILED" /\ sent' = sent
    /\ UNCHANGED <<mIsConnected, rxRunning, lastConnOp>>
    /\ wsCall' = WsRecord("AsyncSendMessage", message,
                          IF message # "" /\ ~ok THEN "eFailed" ELSE "none")

\* PocoWSClient::AsyncSendMessage
AsyncSendMessage(message, ok) ==
    /\ IF message = "" THEN UNCHANGED <<mWSClientErrorEvent, sent>>
       ELSE IF ~mIsConnected THEN UNCHANGED <<mWSClientErrorEvent, sent>>
       ELSE IF ok THEN sent' = sent + 1 /\ UNCHANGED mWSClientErrorEvent
       ELSE mWSClientErrorEvent' = "FAILED" /\ sent' = sent
    /\ UNCHANGED <<mIsConnected, rxRunning, lastConnOp>>
    /\ wsCall' = WsRecord("AsyncSendMessage", message,
                          IF AsyncThrows(message, ok) THEN "eFailed" ELSE "none")

\* Variant: the request stays in the pending requests.
PendingRequestsRemoveNothing(r) == r

\* PendingRequests::Remove, called by the scope guard of SendRequest on
\* every exit.
PendingRequestsRemove(r) == [r EXCEPT !.pending = FALSE]

\* PocoWSClient::SendRequest up to the wait: the request is added to the
\* pending requests and the message is sent; an exception of
\* AsyncSendMessage leaves SendRequest at once.
SendRequest(owner, message, ok) ==
    /\ req.state = "idle"
    /\ nextId < MaxRequests
    /\ nextId' = nextId + 1
    /\ AsyncSendMessage(message, ok)
    /\ LET added == [state |-> "waiting", owner |-> owner, id |-> nextId + 1,
                      response |-> NoFrame, elapsed |-> 0, error |-> "none",
                      pending |-> TRUE]
       IN  req' = IF wsCall'.error = "none" THEN added
                  ELSE PendingRequestsRemove(
                           [added EXCEPT !.state = "thrown", !.error = wsCall'.error])

\* Time passes while SendRequest waits for the response.
SendRequestTick ==
    /\ req.state = "waiting"
    /\ req.response = NoFrame
    /\ req.elapsed < mWebSocketTimeout
    /\ req' = [req EXCEPT !.elapsed = req.elapsed + 1]
    /\ UNCHANGED <<connVars, nextId, wsCount, rxCount, delivery, identVars, app, getVars>>
    /\ UNCHANGED iamVars

\* RequestParams::TryWaitForResponse returns true: SendRequest returns the
\* response.
SendRequestReturn ==
    /\ req.state = "waiting"
    /\ req.response # NoFrame
    /\ req' = PendingRequestsRemove([req EXCEPT !.state = "returned"])
    /\ UNCHANGED <<connVars, nextId, wsCount, rxCount, delivery, identVars, app, getVars>>
    /\ UNCHANGED iamVars

\* RequestParams::TryWaitForResponse returns false: SendRequest throws
\* WSException eTimeout.
SendRequestTimeout ==
    /\ req.state = "waiting"
    /\ req.response = NoFrame
    /\ req.elapsed = mWebSocketTimeout
    /\ req' = PendingRequestsRemove([req EXCEPT !.state = "thrown", !.error = "eTimeout"])
    /\ UNCHANGED <<connVars, nextId, wsCount, rxCount, delivery, identVars, app, getVars>>
    /\ UNCHANGED iamVars

\* Variant: a response completes the pending request whatever its id.
PendingRequestsSetResponseAny(requestId) == req.pending

\* PendingRequests::SetResponse finds the pending request of that id.
PendingRequestsSetResponse(requestId) ==
    \/ req.pending /\ req.id = requestId
    \/ getReq.pending /\ getReq.id = requestId

----------------------------------------------------------------------------
(* VISIdentifier: subscription notifications *)

\* Variant: the observer is called without comparing with the cache.
HandleSubjectsSubscriptionAlways(f) ==
    LET changed == f.valid /\ Len(f.list) <= cMaxSubjectIDSize
    IN  /\ mSubjects' = IF changed THEN f.list ELSE mSubjects
        /\ observerCalls' = IF changed THEN <<f.list>> ELSE <<>>

\* VISIdentifier::HandleSubjectsSubscription: the value is parsed into an
\* array of at most cMaxSubjectIDSize subjects; when it differs from the
\* cached subjects it replaces them and is passed to the observer.
HandleSubjectsSubscription(f) ==
    LET changed == f.valid /\ Len(f.list) <= cMaxSubjectIDSize /\ mSubjects # f.list
    IN  /\ mSubjects' = IF changed THEN f.list ELSE mSubjects
        /\ observerCalls' = IF changed THEN <<f.list>> ELSE <<>>

\* VISSubscriptions::ProcessSubscription: the handler of a registered id is
\* called, an unknown id is an error.
ProcessSubscription(f) ==
    IF f.subscriptionId \in mSubscriptionMap
    THEN HandleSubjectsSubscription(f)
    ELSE mSubjects' = mSubjects /\ observerCalls' = <<>>

\* VISIdentifier::HandleSubscription, the handler PocoWSClient calls with a
\* frame that is no response to a pending request.
HandleSubscription(f) ==
    /\ IF f.action = "subscription" /\ f.subscriptionId # ""
       THEN ProcessSubscription(f)
       ELSE mSubjects' = mSubjects /\ observerCalls' = <<>>
    /\ note' = [frame |-> f, registered |-> f.subscriptionId \in mSubscriptionMap,
                cached |-> mSubjects, after |-> mSubjects']

\* The kind of a received frame, by its syntax and tags.
FrameClass(f) ==
    IF f.action = NotJson THEN "not json"
    ELSE IF f.action = NoActionTag THEN "no action tag"
    ELSE IF f.action = "subscription" THEN "subscription"
    ELSE IF f.requestId = MissingRequestId THEN "no requestId"
    ELSE IF f.requestId = 0 THEN "empty requestId"
    ELSE "response"

\* What HandleResponse did with the frame.
Delivered(f, to) == delivery' = [class |-> FrameClass(f), to |-> to]

\* RequestParams::SetResponse on the pending request SetResponse found:
\* the response is stored and the waiting SendRequest is woken. The
\* response to GetSystemID carries the system id of the connection it
\* came on.
RequestParamsSetResponse(f) ==
    IF getReq.pending /\ getReq.id = f.requestId
    THEN /\ getReq' = [getReq EXCEPT !.response = f,
                                     !.value = IF f.valid THEN connEpoch ELSE 0]
         /\ req' = req
    ELSE req' = [req EXCEPT !.response = f] /\ getReq' = getReq

\* Variant: a response to a pending request is also passed to the
\* subscription handler.
HandleResponseBoth(f) ==
    IF f.action \in {NotJson, NoActionTag}
    THEN Delivered(f, {}) /\ UNCHANGED <<req, getReq, mSubjects, observerCalls, note>>
    ELSE IF f.action = "subscription"
    THEN HandleSubscription(f) /\ UNCHANGED <<req, getReq>> /\ Delivered(f, {"HandleSubscription"})
    ELSE IF f.requestId \in {MissingRequestId, 0}
    THEN Delivered(f, {}) /\ UNCHANGED <<req, getReq, mSubjects, observerCalls, note>>
    ELSE IF PendingRequestsSetResponse(f.requestId)
    THEN /\ RequestParamsSetResponse(f)
         /\ HandleSubscription(f)
         /\ Delivered(f, {"SetResponse", "HandleSubscription"})
    ELSE HandleSubscription(f) /\ UNCHANGED <<req, getReq>> /\ Delivered(f, {"HandleSubscription"})

\* PocoWSClient::HandleResponse. A frame that is no JSON, has no action tag
\* or has an empty requestId throws an AosException, which is caught and
\* logged; a response without requestId tag throws the exception of
\* Var::convert, which is not caught here.
HandleResponse(f) ==
    IF f.action \in {NotJson, NoActionTag}
    THEN Delivered(f, {}) /\ UNCHANGED <<req, getReq, mSubjects, observerCalls, note>>
    ELSE IF f.action = "subscription"
    THEN HandleSubscription(f) /\ UNCHANGED <<req, getReq>> /\ Delivered(f, {"HandleSubscription"})
    ELSE IF f.requestId \in {MissingRequestId, 0}
    THEN Delivered(f, {}) /\ UNCHANGED <<req, getReq, mSubjects, observerCalls, note>>
    ELSE IF PendingRequestsSetResponse(f.requestId)
    THEN /\ RequestParamsSetResponse(f)
         /\ UNCHANGED <<mSubjects, observerCalls, note>>
         /\ Delivered(f, {"SetResponse"})
    ELSE HandleSubscription(f) /\ UNCHANGED <<req, getReq>> /\ Delivered(f, {"HandleSubscription"})

\* HandleResponse leaves by an exception it does not catch.
HandleResponseThrows(f) ==
    /\ f.action \notin {NotJson, NoActionTag, "subscription"}
    /\ f.requestId = MissingRequestId

\* The mutex of VISIdentifier is held: by Close up to the close of the
\* websocket client, or by GetSystemID from its entry to its return.
VISMutexHeld == visPc = "unsubscribed" \/ getPc # "idle"

\* The frame reaches the lock of HandleSubjectsSubscription: it is a
\* notification of a registered subscription whose value was parsed.
NeedsVISMutex(f) ==
    /\ f.action = "subscription"
    /\ f.subscriptionId # "" /\ f.subscriptionId \in mSubscriptionMap
    /\ f.valid /\ Len(f.list) <= cMaxSubjectIDSize

\* PocoWSClient::ReceiveFrames receives a frame and passes it to
\* HandleResponse. An exception out of HandleResponse ends the loop and
\* posts the FAILED event. A notification whose handler finds the mutex of
\* VISIdentifier held keeps the receive thread waiting in the handler.
ReceiveFrames(f) ==
    /\ rxRunning
    /\ rxBlocked = NoFrame
    /\ rxCount < MaxFrames
    /\ rxCount' = rxCount + 1
    /\ IF NeedsVISMutex(f) /\ VISMutexHeld
       THEN /\ rxBlocked' = f
            /\ UNCHANGED <<rxRunning, mWSClientErrorEvent, req, getReq, mSubjects,
                           observerCalls, note, delivery>>
       ELSE /\ HandleResponse(f)
            /\ rxRunning' = ~HandleResponseThrows(f)
            /\ mWSClientErrorEvent' =
                  IF HandleResponseThrows(f) THEN "FAILED" ELSE mWSClientErrorEvent
            /\ rxBlocked' = rxBlocked
    /\ UNCHANGED <<mIsConnected, sent, wsCall, lastConnOp, nextId, wsCount, hcVars, mStop,
                   visPc, mWSClientIsConnected, mSubscriptionMap, app, getPc, getCount,
                   getResult, mSystemId, connEpoch>>
    /\ UNCHANGED iamVars

\* The mutex of VISIdentifier is released and the handler of the waiting
\* notification goes on.
ReceiveFramesResume ==
    /\ rxBlocked # NoFrame
    /\ ~VISMutexHeld
    /\ HandleResponse(rxBlocked)
    /\ rxBlocked' = NoFrame
    /\ UNCHANGED <<connVars, nextId, wsCount, rxCount, hcVars, mStop, visPc,
                   mWSClientIsConnected, mSubscriptionMap, app, getPc, getCount, getResult,
                   mSystemId, connEpoch>>
    /\ UNCHANGED iamVars

\* PocoWSClient::ReceiveFrames ends, on a close frame, an exception or an
\* empty frame: the FAILED event is posted.
ReceiveFramesStopped ==
    /\ rxRunning
    /\ rxBlocked = NoFrame
    /\ rxRunning' = FALSE
    /\ mWSClientErrorEvent' = "FAILED"
    /\ UNCHANGED <<mIsConnected, sent, wsCall, lastConnOp, req, nextId, wsCount, rxCount, delivery,
                   identVars, app, getVars>>
    /\ UNCHANGED iamVars

----------------------------------------------------------------------------
(* A client thread calling PocoWSClient *)

ClientConnect(ok) ==
    /\ wsCount < MaxWsCalls
    /\ wsCount' = wsCount + 1
    /\ PocoWSClientConnect(ok)
    /\ UNCHANGED <<req, nextId, rxCount, delivery, identVars, app, getVars>>
    /\ UNCHANGED iamVars

ClientClose ==
    /\ wsCount < MaxWsCalls
    /\ wsCount' = wsCount + 1
    /\ PocoWSClientClose
    /\ UNCHANGED <<req, nextId, rxCount, delivery, identVars, app, getVars>>
    /\ UNCHANGED iamVars

ClientDisconnect ==
    /\ wsCount < MaxWsCalls
    /\ wsCount' = wsCount + 1
    /\ PocoWSClientDisconnect
    /\ UNCHANGED <<req, nextId, rxCount, delivery, identVars, app, getVars>>
    /\ UNCHANGED iamVars

ClientAsyncSendMessage(message, ok) ==
    /\ wsCount < MaxWsCalls
    /\ wsCount' = wsCount + 1
    /\ AsyncSendMessage(message, ok)
    /\ UNCHANGED <<req, nextId, rxCount, delivery, identVars, app, getVars>>
    /\ UNCHANGED iamVars

ClientSendRequest(message, ok) ==
    /\ wsCount < MaxWsCalls
    /\ wsCount' = wsCount + 1
    /\ SendRequest("client", message, ok)
    /\ UNCHANGED <<rxCount, delivery, identVars, app, getVars>>
    /\ UNCHANGED iamVars

\* The client thread goes on after SendRequest has returned or thrown.
ClientResume ==
    /\ req.owner = "client"
    /\ req.state \in {"returned", "thrown"}
    /\ req' = NoReq
    /\ UNCHANGED <<connVars, nextId, wsCount, rxCount, delivery, identVars, app, getVars>>
    /\ UNCHANGED iamVars

NextWS ==
    \/ \E ok \in BOOLEAN : ClientConnect(ok)
    \/ ClientClose
    \/ ClientDisconnect
    \/ \E message \in Messages, ok \in BOOLEAN : ClientAsyncSendMessage(message, ok)
    \/ \E message \in Messages, ok \in BOOLEAN : ClientSendRequest(message, ok)
    \/ ClientResume
    \/ SendRequestTick
    \/ SendRequestReturn
    \/ SendRequestTimeout
    \/ \E f \in Frames : ReceiveFrames(f)
    \/ ReceiveFramesStopped

SpecWS == Init /\ [][NextWS]_vars

----------------------------------------------------------------------------
(* VISIdentifier: Start, the HandleConnection thread and Stop *)

\* VISIdentifier::Start: the websocket client is created and the
\* HandleConnection thread is started.
VISIdentifierStart ==
    /\ visPc = "init"
    /\ visPc' = "started"
    /\ hcPc' = "connect"
    /\ UNCHANGED <<wsVars, hcExc, hcLast, mStop, mWSClientIsConnected, mSubscriptionMap,
                   mSubjects, note, observerCalls, app, getVars>>
    /\ UNCHANGED iamVars

\* HandleConnection: mWsClientPtr->Connect().
HandleConnectionConnect(ok) ==
    /\ hcPc = "connect"
    /\ connEpoch' = IF mIsConnected \/ ConnectThrows(ok) THEN connEpoch ELSE connEpoch + 1
    /\ PocoWSClientConnect(ok)
    /\ hcLast' = "Connect"
    /\ hcExc' = IF ConnectThrows(ok) THEN "WSException" ELSE "none"
    /\ hcPc' = IF ConnectThrows(ok) THEN "disconnect" ELSE "subscribe"
    /\ mWSClientIsConnected' = IF ConnectThrows(ok) THEN FALSE ELSE mWSClientIsConnected
    /\ UNCHANGED <<req, nextId, wsCount, rxCount, delivery, mStop, visPc, mSubscriptionMap, mSubjects,
                   note, observerCalls, app, getPc, getReq, getCount,
                   getResult, mSystemId, rxBlocked>>
    /\ UNCHANGED iamVars

\* HandleConnection: Subscribe sends the subscribe request.
HandleConnectionSubscribe(ok) ==
    /\ hcPc = "subscribe"
    /\ SendRequest("HandleConnection", "m", ok)
    /\ hcLast' = "Subscribe"
    /\ hcExc' = IF AsyncThrows("m", ok) THEN "WSException" ELSE "none"
    /\ hcPc' = IF AsyncThrows("m", ok) THEN "disconnect" ELSE "subscribe_wait"
    /\ mWSClientIsConnected' = IF AsyncThrows("m", ok) THEN FALSE ELSE mWSClientIsConnected
    /\ UNCHANGED <<wsCount, rxCount, delivery, mStop, visPc, mSubscriptionMap, mSubjects, note,
                   observerCalls, app, getVars>>
    /\ UNCHANGED iamVars

\* HandleConnection: the subscribe request timed out.
HandleConnectionSubscribeTimeout ==
    /\ hcPc = "subscribe_wait"
    /\ req.state = "thrown"
    /\ req' = NoReq
    /\ hcExc' = "WSException"
    /\ hcPc' = "disconnect"
    /\ mWSClientIsConnected' = FALSE
    /\ UNCHANGED <<connVars, nextId, wsCount, rxCount, delivery, hcLast, mStop, visPc, mSubscriptionMap,
                   mSubjects, note, observerCalls, app, getVars>>
    /\ UNCHANGED iamVars

\* HandleConnection: the subscribe request returned. A response without a
\* subscription id throws an exception that is no WSException; otherwise
\* the id is registered, the cached values are cleared and the connected
\* event is set.
HandleConnectionSubscribed ==
    /\ hcPc = "subscribe_wait"
    /\ req.state = "returned"
    /\ req' = NoReq
    /\ IF req.response.subscriptionId = ""
       THEN /\ hcExc' = "other"
            /\ hcPc' = "delay"
            /\ UNCHANGED <<mSubscriptionMap, mSubjects, mSystemId, mWSClientIsConnected>>
       ELSE /\ hcExc' = "none"
            /\ hcPc' = "wait_event"
            /\ mSubscriptionMap' = mSubscriptionMap \cup {req.response.subscriptionId}
            /\ mSubjects' = <<>>
            /\ mSystemId' = 0
            /\ mWSClientIsConnected' = TRUE
    /\ UNCHANGED <<connVars, nextId, wsCount, rxCount, delivery, hcLast, mStop, visPc, note,
                   observerCalls, app, getPc, getReq, getCount, getResult, connEpoch,
                   rxBlocked>>
    /\ UNCHANGED iamVars

\* Variant: HandleConnection returns on every event.
HandleConnectionWaitForEventReturns ==
    /\ hcPc = "wait_event"
    /\ mWSClientErrorEvent # "none"
    /\ hcExc' = mWSClientErrorEvent
    /\ hcPc' = "stopped"
    /\ UNCHANGED <<wsVars, hcLast, mStop, visPc, mWSClientIsConnected, mSubscriptionMap,
                   mSubjects, note, observerCalls, app, getVars>>
    /\ UNCHANGED iamVars

\* HandleConnection: WaitForEvent returns. CLOSED ends the thread; any
\* other event resets the connected event and goes on to Disconnect.
HandleConnectionWaitForEvent ==
    /\ hcPc = "wait_event"
    /\ mWSClientErrorEvent # "none"
    /\ hcExc' = mWSClientErrorEvent
    /\ hcPc' = IF mWSClientErrorEvent = "CLOSED" THEN "stopped" ELSE "disconnect"
    /\ mWSClientIsConnected' =
          IF mWSClientErrorEvent = "CLOSED" THEN mWSClientIsConnected ELSE FALSE
    /\ UNCHANGED <<wsVars, hcLast, mStop, visPc, mSubscriptionMap, mSubjects, note,
                   observerCalls, app, getVars>>
    /\ UNCHANGED iamVars

\* HandleConnection: mWsClientPtr->Disconnect() after an event other than
\* CLOSED or in the handler of WSException.
HandleConnectionDisconnect ==
    /\ hcPc = "disconnect"
    /\ PocoWSClientDisconnect
    /\ hcLast' = "Disconnect"
    /\ hcPc' = "delay"
    /\ UNCHANGED <<req, nextId, wsCount, rxCount, delivery, hcExc, mStop, visPc, mWSClientIsConnected,
                   mSubscriptionMap, mSubjects, note, observerCalls, app, getVars>>
    /\ UNCHANGED iamVars

\* HandleConnection: the condition of the loop. tryWait returns true when
\* stop was requested, and the thread ends; otherwise the reconnect delay
\* has passed and the loop starts again.
HandleConnectionDelay ==
    /\ hcPc = "delay"
    /\ hcPc' = IF mStop THEN "stopped" ELSE "connect"
    /\ mStop' = FALSE
    /\ hcExc' = "none"
    /\ UNCHANGED <<wsVars, hcLast, visPc, mWSClientIsConnected, mSubscriptionMap, mSubjects,
                   note, observerCalls, app, getVars>>
    /\ UNCHANGED iamVars

\* VISIdentifier::Close, under the mutex: SendUnsubscribeAllRequest, whose
\* exceptions are caught.
VISIdentifierCloseUnsubscribe(ok) ==
    /\ visPc = "started"
    /\ visPc' = "unsubscribed"
    /\ AsyncSendMessage("m", ok)
    /\ UNCHANGED <<req, nextId, wsCount, rxCount, delivery, hcVars, mStop, mWSClientIsConnected,
                   mSubscriptionMap, mSubjects, note, observerCalls, app, getVars>>
    /\ UNCHANGED iamVars

\* VISIdentifier::Close, still under the mutex: the stop event is set and
\* the websocket client is closed.
VISIdentifierClose ==
    /\ visPc = "unsubscribed"
    /\ visPc' = "joining"
    /\ mStop' = TRUE
    /\ PocoWSClientClose
    /\ UNCHANGED <<req, nextId, wsCount, rxCount, delivery, hcVars, mWSClientIsConnected,
                   mSubscriptionMap, mSubjects, note, observerCalls, app, getVars>>
    /\ UNCHANGED iamVars

\* VISIdentifier::Close: the HandleConnection thread is joined and the
\* connected event is reset.
VISIdentifierClosed ==
    /\ visPc = "joining"
    /\ hcPc = "stopped"
    /\ visPc' = "closed"
    /\ mWSClientIsConnected' = FALSE
    /\ UNCHANGED <<wsVars, hcVars, mStop, mSubscriptionMap, mSubjects, note, observerCalls,
                   app, getVars>>
    /\ UNCHANGED iamVars

NextVIS ==
    \/ VISIdentifierStart
    \/ \E ok \in BOOLEAN : HandleConnectionConnect(ok)
    \/ \E ok \in BOOLEAN : HandleConnectionSubscribe(ok)
    \/ HandleConnectionSubscribeTimeout
    \/ HandleConnectionSubscribed
    \/ HandleConnectionWaitForEvent
    \/ HandleConnectionDisconnect
    \/ HandleConnectionDelay
    \/ \E ok \in BOOLEAN : VISIdentifierCloseUnsubscribe(ok)
    \/ VISIdentifierClose
    \/ VISIdentifierClosed
    \/ SendRequestTick
    \/ SendRequestReturn
    \/ SendRequestTimeout
    \/ \E f \in Frames : ReceiveFrames(f)
    \/ ReceiveFramesResume
    \/ ReceiveFramesStopped

SpecVIS == Init /\ [][NextVIS]_vars

----------------------------------------------------------------------------
(* VISIdentifier::GetSystemID, called while HandleConnection runs *)

\* GetSystemID calls in one behaviour.
MaxGets == 2

\* The request id GenerateRequestID gives the call: unique, and apart from
\* the ids of the subscribe requests.
GetRequestId == MaxRequests + getCount

\* GetSystemID, the cached value is not empty: it is returned.
GetSystemIDCached ==
    /\ visPc = "started"
    /\ ~VISMutexHeld
    /\ getCount < MaxGets
    /\ mSystemId # 0
    /\ getCount' = getCount + 1
    /\ getResult' = [value |-> mSystemId, error |-> "none"]
    /\ UNCHANGED <<wsVars, identVars, app, getPc, getReq, mSystemId, connEpoch, rxBlocked>>
    /\ UNCHANGED iamVars

\* GetSystemID, the cached value is empty: the mutex is kept and
\* SendGetRequest goes to WaitUntilConnected.
GetSystemID ==
    /\ visPc = "started"
    /\ ~VISMutexHeld
    /\ getCount < MaxGets
    /\ mSystemId = 0
    /\ getCount' = getCount + 1
    /\ getPc' = "wait_connected"
    /\ UNCHANGED <<wsVars, identVars, app, getReq, getResult, mSystemId, connEpoch, rxBlocked>>
    /\ UNCHANGED iamVars

\* SendGetRequest: WaitUntilConnected returns and SendRequest adds the
\* request and sends the message; an exception of AsyncSendMessage makes
\* GetSystemID return eFailed.
SendGetRequest(ok) ==
    /\ getPc = "wait_connected"
    /\ mWSClientIsConnected
    /\ AsyncSendMessage("m", ok)
    /\ IF AsyncThrows("m", ok)
       THEN /\ getPc' = "idle"
            /\ getResult' = [value |-> 0, error |-> "eFailed"]
            /\ getReq' = getReq
       ELSE /\ getPc' = "wait_response"
            /\ getReq' = [NoGetReq EXCEPT !.state = "waiting", !.owner = "GetSystemID",
                                          !.id = GetRequestId, !.pending = TRUE]
            /\ getResult' = getResult
    /\ UNCHANGED <<req, nextId, wsCount, rxCount, delivery, identVars, app, getCount,
                   mSystemId, connEpoch, rxBlocked>>
    /\ UNCHANGED iamVars

\* Time passes while the SendRequest of GetSystemID waits.
GetRequestTick ==
    /\ getPc = "wait_response"
    /\ getReq.response = NoFrame
    /\ getReq.elapsed < mWebSocketTimeout
    /\ getReq' = [getReq EXCEPT !.elapsed = getReq.elapsed + 1]
    /\ UNCHANGED <<wsVars, identVars, app, getPc, getCount, getResult, mSystemId,
                   connEpoch, rxBlocked>>
    /\ UNCHANGED iamVars

\* SendRequest throws eTimeout: the request is removed and GetSystemID
\* returns eFailed.
GetRequestTimeout ==
    /\ getPc = "wait_response"
    /\ getReq.response = NoFrame
    /\ getReq.elapsed = mWebSocketTimeout
    /\ getReq' = NoGetReq
    /\ getPc' = "idle"
    /\ getResult' = [value |-> 0, error |-> "eFailed"]
    /\ UNCHANGED <<wsVars, identVars, app, getCount, mSystemId, connEpoch, rxBlocked>>
    /\ UNCHANGED iamVars

\* SendRequest returns the response: the request is removed; a response
\* with a system id is stored in the cache and returned, any other makes
\* GetSystemID return eFailed.
GetRequestReturn ==
    /\ getPc = "wait_response"
    /\ getReq.response # NoFrame
    /\ getReq' = NoGetReq
    /\ getPc' = "idle"
    /\ mSystemId' = IF getReq.value # 0 THEN getReq.value ELSE mSystemId
    /\ getResult' = IF getReq.value # 0 THEN [value |-> getReq.value, error |-> "none"]
                    ELSE [value |-> 0, error |-> "eFailed"]
    /\ UNCHANGED <<wsVars, identVars, app, getCount, connEpoch, rxBlocked>>
    /\ UNCHANGED iamVars

\* Responses to the get requests; valid is FALSE when the response carries
\* no system id.
GetResponses ==
    [action : {"get"}, requestId : (MaxRequests + 1)..(MaxRequests + MaxGets),
     subscriptionId : {""}, valid : BOOLEAN, list : {<<>>}]

\* Frames the VIS server sends while GetSystemID is called: responses to
\* the subscribe and get requests and a notification of the subscription.
GetFrames ==
    {f \in Responses : f.requestId # 0 /\ f.subscriptionId = "s1"}
    \cup GetResponses
    \cup {f \in Notifications : f.subscriptionId = "s1" /\ f.list = <<"a">>}

NextGet ==
    \/ VISIdentifierStart
    \/ \E ok \in BOOLEAN : HandleConnectionConnect(ok)
    \/ \E ok \in BOOLEAN : HandleConnectionSubscribe(ok)
    \/ HandleConnectionSubscribeTimeout
    \/ HandleConnectionSubscribed
    \/ HandleConnectionWaitForEvent
    \/ HandleConnectionDisconnect
    \/ HandleConnectionDelay
    \/ SendRequestTick
    \/ SendRequestReturn
    \/ SendRequestTimeout
    \/ GetSystemIDCached
    \/ GetSystemID
    \/ \E ok \in BOOLEAN : SendGetRequest(ok)
    \/ GetRequestTick
    \/ GetRequestTimeout
    \/ GetRequestReturn
    \/ \E f \in GetFrames : ReceiveFrames(f)
    \/ ReceiveFramesResume
    \/ ReceiveFramesStopped

SpecGet == Init /\ [][NextGet]_vars

----------------------------------------------------------------------------
(* App: initialisation of the identifier and cert modules *)

\* Cert modules in the configuration.
MaxCertModules == 2

\* Identifier plugin names a configuration may carry; the empty name is a
\* configuration without identifier.
IdentifierPlugins == {"fileidentifier", "visidentifier", "", "otheridentifier"}

\* The plugin name of the PKCS11 cert module.
cPKCS11CertModule == "pkcs11module"

\* Cert module plugin names a configuration may carry.
CertModulePlugins == {cPKCS11CertModule, "othermodule"}

\* config.mCertModules
CertModuleLists ==
    UNION {[1..n -> [plugin : CertModulePlugins, disabled : BOOLEAN]] : n \in 0..MaxCertModules}

\* App::InitIdentifierModule: the error it returns and the identifier it
\* leaves in mIdentifier; ok is the result of the plugin's Init.
InitIdentifierModule(plugin, ok) ==
    IF plugin = "fileidentifier"
    THEN [error |-> IF ok THEN "none" ELSE "failed", mIdentifier |-> IF ok THEN plugin ELSE "null"]
    ELSE IF plugin = "visidentifier"
    THEN [error |-> IF ok THEN "none" ELSE "failed", mIdentifier |-> IF ok THEN plugin ELSE "null"]
    ELSE [error |-> "none", mIdentifier |-> "null"]

\* The loop of App::InitCertModules from module i on, with n modules
\* registered so far; ok is the result of the modules' Init.
RECURSIVE InitCertModulesFrom(_, _, _, _)
InitCertModulesFrom(modules, i, n, ok) ==
    IF i > Len(modules) THEN [error |-> "none", registered |-> n]
    ELSE IF modules[i].plugin # cPKCS11CertModule
    THEN [error |-> "eInvalidArgument", registered |-> n]
    ELSE IF modules[i].disabled THEN InitCertModulesFrom(modules, i + 1, n, ok)
    ELSE IF ~ok THEN [error |-> "failed", registered |-> n]
    ELSE InitCertModulesFrom(modules, i + 1, n + 1, ok)

\* App::InitCertModules
InitCertModules(modules, ok) == InitCertModulesFrom(modules, 1, 0, ok)

\* App::Init: the configuration is parsed.
AppParseConfig(identifier, modules) ==
    /\ app.pc = "parse"
    /\ app' = [app EXCEPT !.pc = "identifier", !.identifier = identifier, !.modules = modules]
    /\ UNCHANGED <<wsVars, identVars, getVars>>
    /\ UNCHANGED iamVars

\* App::Init: InitIdentifierModule and the check of its error.
AppInitIdentifierModule(ok) ==
    /\ app.pc = "identifier"
    /\ LET r == InitIdentifierModule(app.identifier, ok)
       IN  app' = [app EXCEPT !.pc = IF r.error = "none" THEN "cert_modules" ELSE "failed",
                              !.mIdentifier = r.mIdentifier]
    /\ UNCHANGED <<wsVars, identVars, getVars>>
    /\ UNCHANGED iamVars

\* App::Init: InitCertModules and the check of its error.
AppInitCertModules(ok) ==
    /\ app.pc = "cert_modules"
    /\ LET r == InitCertModules(app.modules, ok)
       IN  app' = [app EXCEPT !.pc = IF r.error = "none" THEN "server" ELSE "failed",
                              !.registered = r.registered]
    /\ UNCHANGED <<wsVars, identVars, getVars>>
    /\ UNCHANGED iamVars

\* App::Init: mIAMServer.Init(..., *mIdentifier, ...). Dereferencing an
\* empty mIdentifier is undefined: the server is initialised with a
\* reference to no identifier, or the process crashes.
AppInitServer(outcome) ==
    /\ app.pc = "server"
    /\ outcome = "crashed" => app.mIdentifier = "null"
    /\ app' = [app EXCEPT !.pc = outcome]
    /\ UNCHANGED <<wsVars, identVars, getVars>>
    /\ UNCHANGED iamVars

\* App::Start: the identifier is started when there is one, then the server.
AppStart ==
    /\ app.pc = "initialized"
    /\ app' = [app EXCEPT !.pc = "started"]
    /\ UNCHANGED <<wsVars, identVars, getVars>>
    /\ UNCHANGED iamVars

NextApp ==
    \/ \E identifier \in IdentifierPlugins, modules \in CertModuleLists :
          AppParseConfig(identifier, modules)
    \/ \E ok \in BOOLEAN : AppInitIdentifierModule(ok)
    \/ \E ok \in BOOLEAN : AppInitCertModules(ok)
    \/ \E outcome \in {"initialized", "crashed"} : AppInitServer(outcome)
    \/ AppStart

SpecApp == Init /\ [][NextApp]_vars

----------------------------------------------------------------------------
(* Specifications *)

\* Clients subscribe to subjects and node changes while the identifier
\* reports subject lists and the server closes and restarts the handler.
NextFanOut ==
    \/ \E t \in Threads : SubscribeSubjectsChanged(t)
    \/ \E t \in Threads : SubscribeNodeChanged(t)
    \/ \E messages \in SubjectLists : SubjectsChanged(messages)
    \/ \E t \in Threads, ok \in BOOLEAN : HandleStreamClosed(t, ok)
    \/ \E t \in Threads, ok \in BOOLEAN : ClientCancel(t, ok)
    \/ CloseCall
    \/ Close
    \/ Start

SpecFanOut == Init /\ [][NextFanOut]_vars

\* What thread t does on its own once it is scheduled: lock acquisitions,
\* collaborator calls, calls on a node stream (bounded by their timeout),
\* the end of a wait_for (bounded by cRequestRetryTimeout) and the return of
\* HandleStream from a closed writer.  A client cancelling its stream is
\* not among them.
Progress(t) ==
    \/ RequestWithRetry(t)
    \/ RequestLookup(t)
    \/ \E res \in RemoteResults, e \in ErrorInfos : RequestReturn(t, res, e)
    \/ RetryWakeTimeout(t)
    \/ RetryWakeNotified(t)
    \/ \E ok \in BOOLEAN : SetNodeStatusManager(t, ok)
    \/ CertWriterPush(t)
    \/ \E ok \in BOOLEAN : CertProviderSubscribe(t, ok)
    \/ \E ok \in BOOLEAN : HandleStreamClosed(t, ok)

\* The same system with every thread scheduled fairly.
FairShutdown ==
    /\ SpecShutdown
    /\ WF_vars(Close)
    /\ \A t \in Threads : WF_vars(Progress(t))

----------------------------------------------------------------------------
(* Vocabulary of the properties *)

\* The request of thread t names the own node (node_id empty or own id).
TargetsOwnNode(t) == nodeID[t] \in {"", "node0"}

\* Thread t executes a node RPC.
InRpc(t) == op[t] \in NodeOps /\ pc[t] # "idle"

\* CreateKey returned before routing because GetSystemID failed.
RejectedBeforeRouting(t) == op[t] = "CreateKey" /\ subject[t] = ""

\* Transitions of the status table, per operation.
LegalTransitions(o) ==
    CASE o = "PauseNode" -> {<<"provisioned", "paused">>}
      [] o = "ResumeNode" -> {<<"paused", "provisioned">>}
      [] o = "FinishProvisioning" -> {<<"unprovisioned", "provisioned">>}
      [] o = "Deprovision" -> {<<"provisioned", "unprovisioned">>, <<"paused", "unprovisioned">>}
      [] OTHER -> {}

----------------------------------------------------------------------------
(* C1: Dispatch fidelity.  A request whose node_id is empty or the own     *)
(* node id never uses a node stream handler and, once it has returned, has *)
(* run its local collaborator call exactly once; any other request never   *)
(* calls ProvisionManager or NodeInfoProvider and, if it returned OK, was   *)
(* put on the node stream; no request does both.                           *)
DispatchFidelity ==
    \A t \in Threads : InRpc(t) =>
        /\ TargetsOwnNode(t) => lookups[t] = 0 /\ frames[t] = 0 /\ attempts[t] = 0
        /\ ~TargetsOwnNode(t) => pmCalls[t] = 0 /\ nipCalls[t] = 0
        /\ ~(frames[t] > 0 /\ pmCalls[t] + nipCalls[t] > 0)
        /\ (pc[t] = "done" /\ TargetsOwnNode(t) /\ ~RejectedBeforeRouting(t)) =>
              IF op[t] \in {"PauseNode", "ResumeNode"}
              THEN nipCalls[t] = 1 /\ pmCalls[t] = 0
              ELSE pmCalls[t] = 1
        /\ (pc[t] = "done" /\ ~TargetsOwnNode(t) /\ ~RejectedBeforeRouting(t) /\ status[t] = "OK") =>
              frames[t] >= 1

\* A forwarded CreateKey has returned OK after one request on the node stream.
DispatchFidelityWitness ==
    \E t \in Threads :
        /\ pc[t] = "done" /\ op[t] = "CreateKey" /\ nodeID[t] = "node1"
        /\ status[t] = "OK" /\ frames[t] = 1 /\ pmCalls[t] = 0

----------------------------------------------------------------------------
(* C2: State legality.  Every change of a node status made by a            *)
(* status-changing RPC is a transition the table allows for that RPC.      *)
StateLegality ==
    [][\A t \in Threads :
          (pc[t] \in {"set_nip", "set_nm"} /\ pc'[t] # pc[t]) =>
              /\ nipStatus' # nipStatus =>
                    <<nipStatus, nipStatus'>> \in LegalTransitions(op[t])
              /\ \A n \in Nodes : nmStatus'[n] # nmStatus[n] =>
                    <<nmStatus[n], nmStatus'[n]>> \in LegalTransitions(op[t])]_vars

----------------------------------------------------------------------------
----------------------------------------------------------------------------
(* C4: a forwarded RPC makes at most 3 attempts, makes none after an       *)
(* attempt that returned OK, and one whose first attempt returns OK makes   *)
(* exactly one attempt and puts one request on the stream.                 *)
AtMostThreeAttempts ==
    \A t \in Threads : InRpc(t) =>
        /\ attempts[t] <= 3 /\ frames[t] <= attempts[t]
        /\ (pc[t] = "request" /\ attempts[t] >= 1) => status[t] # "OK"
        /\ (pc[t] = "in_call" /\ attempts[t] >= 2) => status[t] # "OK"
        /\ pc[t] = "waiting" => status[t] # "OK"
        /\ (pc[t] \in {"set_nm", "done"} /\ ~TargetsOwnNode(t) /\ status[t] = "OK"
               /\ ~RejectedBeforeRouting(t) /\ waits[t] = 0) =>
              attempts[t] = 1 /\ frames[t] = 1

\* A forwarded call succeeded at its first attempt.
AtMostThreeAttemptsWitness ==
    \E t \in Threads :
        /\ pc[t] = "done" /\ op[t] = "StartProvisioning" /\ ~TargetsOwnNode(t)
        /\ status[t] = "OK" /\ attempts[t] = 1 /\ frames[t] = 1 /\ waits[t] = 0

----------------------------------------------------------------------------
(* C5: when Close has run, every forwarded RPC waiting between attempts    *)
(* has been picked by the close signal.                                    *)
CloseWakesEveryWaiter ==
    \A t \in Threads : (pc[t] = "waiting" /\ mClose) => t \in notified

----------------------------------------------------------------------------
(* C7: mMutex is not held while a forwarded request waits for the          *)
(* secondary's response.                                                   *)
NoLockAcrossCall ==
    \A t \in Threads : pc[t] = "in_call" => mMutex # t

----------------------------------------------------------------------------
(* C8: two status-changing RPCs on the same node are never both between    *)
(* their collaborator call and the end of their status update.             *)
InTransition(t) ==
    /\ op[t] \in StatusOps
    /\ pc[t] \in {"set_nip", "set_nm"}
    /\ pmCalls[t] + nipCalls[t] + frames[t] > 0

TransitionsSerialized ==
    \A t1, t2 \in Threads :
        (t1 # t2 /\ InTransition(t1) /\ InTransition(t2)) =>
            NodeManagerID(nodeID[t1]) # NodeManagerID(nodeID[t2])

----------------------------------------------------------------------------
(* C9 as claimed: provisioning and certificate RPCs always return OK, the  *)
(* error field being set exactly when a collaborator failed.               *)
InBandOps == {"StartProvisioning", "FinishProvisioning", "Deprovision", "CreateKey", "ApplyCert"}

AlwaysTransportOK ==
    \A t \in Threads : (op[t] \in InBandOps /\ pc[t] = "done") =>
        /\ status[t] = "OK"
        /\ (respErr[t] = "failed") <=> collabErr[t]

(* C9 as amended: executed locally, these RPCs always return OK and the    *)
(* error field is set exactly when ProvisionManager, GetSystemID or        *)
(* SetNodeStatus failed; forwarded, they return the status of              *)
(* RequestWithRetry, which is not OK when no attempt succeeded.            *)
LocalAlwaysTransportOK ==
    \A t \in Threads : (op[t] \in InBandOps /\ pc[t] = "done") =>
        /\ (TargetsOwnNode(t) \/ RejectedBeforeRouting(t)) =>
              /\ status[t] = "OK"
              /\ (respErr[t] = "failed") <=> collabErr[t]
        /\ (~TargetsOwnNode(t) /\ ~RejectedBeforeRouting(t) /\ status[t] = "OK") =>
              frames[t] >= 1

\* A local ApplyCert failed in ProvisionManager and returned OK with the error.
LocalAlwaysTransportOKWitness ==
    \E t \in Threads :
        /\ pc[t] = "done" /\ op[t] = "ApplyCert" /\ TargetsOwnNode(t)
        /\ pmCalls[t] = 1 /\ ~pmOk[t] /\ status[t] = "OK" /\ respErr[t] = "failed"

----------------------------------------------------------------------------
(* C10: a local FinishProvisioning / Deprovision calls SetNodeStatus only  *)
(* after ProvisionManager succeeded: on failure neither NodeInfoProvider   *)
(* nor NodeManager is called; on success NodeInfoProvider.SetNodeStatus is *)
(* called and, the setters succeeding, both hold the target status.        *)
StatusSetOnlyOnSuccess ==
    \A t \in Threads :
        (op[t] \in {"FinishProvisioning", "Deprovision"} /\ TargetsOwnNode(t) /\ pc[t] # "idle") =>
            /\ pmCalls[t] = 0 => nipCalls[t] = 0 /\ nmCalls[t] = 0
            /\ (pmCalls[t] = 1 /\ ~pmOk[t]) =>
                  pc[t] = "done" /\ nipCalls[t] = 0 /\ nmCalls[t] = 0 /\ respErr[t] = "failed"
            /\ (pc[t] = "done" /\ pmOk[t]) => nipCalls[t] = 1
            /\ (pc[t] = "done" /\ pmOk[t] /\ respErr[t] = "none") =>
                  /\ nmCalls[t] = 1
                  /\ nipStatus = TargetStatus(op[t])
                  /\ nmStatus["node0"] = TargetStatus(op[t])

\* A local FinishProvisioning succeeded and the node is provisioned.
StatusSetOnlyOnSuccessWitness ==
    \E t \in Threads :
        /\ pc[t] = "done" /\ op[t] = "FinishProvisioning" /\ nodeID[t] = "node0"
        /\ pmOk[t] /\ respErr[t] = "none" /\ nipStatus = "provisioned"

----------------------------------------------------------------------------
(* C6: Shutdown liveness.  Once Close has been invoked it returns, every   *)
(* RPC in progress at that time (forwarded call or streaming subscription) *)
(* terminates, and the cert-writer set becomes empty.                      *)
Finished(t) == pc[t] \in {"idle", "done"}

ShutdownLiveness ==
    /\ (ctl = "close") ~> (ctl = "idle")
    /\ \A t \in Threads : (ctl = "close" /\ ~Finished(t)) ~> Finished(t)
    /\ (ctl = "close") ~> (mCertWriters = {})

----------------------------------------------------------------------------
(* C11 as claimed: a forwarded StartProvisioning, FinishProvisioning or    *)
(* Deprovision whose call timed out has made exactly one attempt and has   *)
(* returned the timeout.                                                   *)
ProvisioningFamily == {"StartProvisioning", "FinishProvisioning", "Deprovision"}

----------------------------------------------------------------------------
(* C12 as claimed: on a handler that is never closed, a forwarded RPC      *)
(* whose stream is closed during the first call and is not found again     *)
(* makes 3 attempts and returns Unavailable.                               *)
StreamLostInFirstCall(t) ==
    /\ InRpc(t) /\ ~TargetsOwnNode(t) /\ pc[t] = "done"
    /\ streamCut[t] = 1 /\ frames[t] = 1 /\ ctlCount = 0

----------------------------------------------------------------------------
(* C13: while the handler is closed no request is made on a node stream,   *)
(* and a forwarded RPC that enters RequestWithRetry on a closed handler    *)
(* returns WrongState without having looked up or called a stream.         *)
WrongStateWhenClosed ==
    [][\A t \in Threads :
          /\ pc'[t] \in {"request", "in_call"} => ~mClose'
          /\ (pc[t] = "lock" /\ pc'[t] # "lock" /\ mClose) =>
                /\ pc'[t] = "done" /\ status'[t] = "WrongState"
                /\ attempts'[t] = 0 /\ lookups'[t] = 0 /\ frames'[t] = 0
                /\ nmCalls'[t] = 0]_vars

\* A forwarded PauseNode was refused on a closed handler.
WrongStateWhenClosedWitness ==
    \E t \in Threads :
        /\ pc[t] = "done" /\ op[t] = "PauseNode" /\ nodeID[t] = "node1" /\ mClose
        /\ status[t] = "WrongState" /\ attempts[t] = 0 /\ frames[t] = 0

----------------------------------------------------------------------------
(* C14: a RegisterInstance request with more than cMaxNumServices services *)
(* returns a non-OK status (the capacity error of the conversion) and      *)
(* PermHandler.RegisterInstance is never called for it; a request whose    *)
(* permissions fit has called PermHandler.RegisterInstance exactly once    *)
(* when it returns.                                                        *)
Oversize(t) == permissions[t][1] > cMaxNumServices

WithinCapacity(t) ==
    permissions[t][1] <= cMaxNumServices /\ permissions[t][2] <= mPermissionsMaxSize

----------------------------------------------------------------------------
(* C15: CreateKey asks GetSystemID exactly when the request's subject is   *)
(* empty; the subject ProvisionManager.CreateKey receives, and the subject *)
(* of the request put on the node stream, is the system id for an empty    *)
(* subject and the request's subject otherwise; when GetSystemID fails     *)
(* neither ProvisionManager nor a node stream is used and the RPC returns  *)
(* OK with the error in the response.                                      *)
ExpectedSubject(t) == IF reqSubject[t] = "" THEN "system-id" ELSE reqSubject[t]

----------------------------------------------------------------------------
(* C16: a SubscribeCertChanged call that starts after Close has returned,  *)
(* the handler not having been started again, is rejected: it does not     *)
(* enter HandleStream and its writer is not in mCertWriters.               *)
NewSubscriptionRejected ==
    \A t \in Threads :
        (op[t] = "SubscribeCertChanged" /\ enteredClosed[t] /\ mClose) =>
            pc[t] # "cw_stream" /\ certWriter[t] \notin mCertWriters

----------------------------------------------------------------------------
(* C17: mCertWriters holds exactly the writers of the SubscribeCertChanged *)
(* RPCs in progress: every writer of the set belongs to an RPC that has    *)
(* not returned, the writer of an RPC that has returned is not in the set, *)
(* and the set is empty once Close has returned.                           *)
NoLeakedSubscription ==
    /\ \A w \in mCertWriters :
          \E t \in Threads : certWriter[t] = w /\ pc[t] \in {"cw_subscribe", "cw_stream"}
    /\ \A t \in Threads :
          (op[t] = "SubscribeCertChanged" /\ pc[t] = "done") => certWriter[t] \notin mCertWriters
    /\ (mClose /\ closeRuns > 0 /\ ctl = "idle") => mCertWriters = {}

----------------------------------------------------------------------------
(* C18: Close on a handler that is already closed is never kept waiting    *)
(* for mMutex, and when it has run the handler is in the state a single    *)
(* Close leaves: mClose set, mCertWriters empty and every writer it held   *)
(* closed; no RPC and no node status is touched.                           *)
CloseIdempotent ==
    [][/\ (ctl' = "close" /\ mClose') => mMutex' = "none"
       /\ (ctl = "close" /\ mClose /\ ctl' = "idle") =>
            /\ mClose' /\ mCertWriters' = {}
            /\ mCertWriters \subseteq closedWriters'
            /\ UNCHANGED <<pc, status, respErr, nipStatus, nmStatus, streams>>]_vars

\* Close has run twice in a row and the second run found a writer to close.
CloseIdempotentWitness ==
    /\ closeRuns = 2 /\ mClose /\ ctl = "idle" /\ mCertWriters = {}
    /\ \E t \in Threads : enteredClosed[t] /\ certWriter[t] \in closedWriters

----------------------------------------------------------------------------
(* C19: a Deprovision that follows a successful Deprovision of the same    *)
(* node, the node being Unprovisioned, is a no-op: it calls neither        *)
(* ProvisionManager nor a node stream nor SetNodeStatus, and returns OK    *)
(* without error.                                                          *)
SecondDeprovisionIsNoOp ==
    \A t \in Threads : (op[t] = "Deprovision" /\ deprovisionedBefore[t]) =>
        /\ pmCalls[t] = 0 /\ frames[t] = 0 /\ nipCalls[t] = 0 /\ nmCalls[t] = 0
        /\ pc[t] = "done" => status[t] = "OK" /\ respErr[t] = "none"

----------------------------------------------------------------------------
(* C20: NodeInfoProvider.SetNodeStatus is called only by a status-changing *)
(* RPC whose node_id is empty or the own node id, and such an RPC that     *)
(* returns without error has called it once; when NodeManager then accepts *)
(* the status it is recorded under the own node id and both hold the same  *)
(* status, for an empty node_id as for the own id; an RPC naming another   *)
(* node never changes the NodeInfoProvider status and records the status   *)
(* under that node's id only.                                              *)
EmptyNodeIdIsOwn ==
    [][\A t \in Threads : op[t] \in StatusOps =>
          /\ nipCalls'[t] > nipCalls[t] => nodeID[t] \in {"", "node0"}
          /\ (nipStatus' # nipStatus /\ pc'[t] # pc[t]) => nodeID[t] \in {"", "node0"}
          /\ (pc'[t] = "done" /\ pc[t] # "done" /\ nodeID[t] \in {"", "node0"}
                 /\ respErr'[t] = "none") =>
                /\ nipCalls'[t] = 1 /\ nmCalls'[t] = 1
                /\ nipStatus' = TargetStatus(op[t])
                /\ nmStatus'["node0"] = TargetStatus(op[t])
                /\ nmStatus'["node1"] = nmStatus["node1"]
          /\ (pc'[t] = "done" /\ pc[t] = "set_nm" /\ nodeID[t] = "node1"
                 /\ ~collabErr'[t]) =>
                /\ nipCalls'[t] = 0 /\ nipStatus' = nipStatus
                /\ nmStatus'["node1"] = TargetStatus(op[t])
                /\ nmStatus'["node0"] = nmStatus["node0"]]_vars

\* PauseNode with an empty node_id paused the own node in both collaborators.
EmptyNodeIdIsOwnWitness ==
    \E t \in Threads :
        /\ pc[t] = "done" /\ op[t] = "PauseNode" /\ nodeID[t] = ""
        /\ nipCalls[t] = 1 /\ nmCalls[t] = 1 /\ respErr[t] = "none"
        /\ nipStatus = "paused" /\ nmStatus["node0"] = "paused"

----------------------------------------------------------------------------
(* C21: a node that opens a RegisterNode stream is registered exactly when *)
(* the status it reports is allowed on that endpoint: Unprovisioned on the *)
(* public endpoint, Provisioned or Paused on the protected one, so every   *)
(* status is admitted by one endpoint only; a rejected stream is not        *)
(* entered in the registry.                                                *)
Admitted(r) ==
    \/ r.endpoint = "public" /\ r.status = "unprovisioned"
    \/ r.endpoint = "protected" /\ r.status \in {"provisioned", "paused"}

RegistrationAdmission ==
    [][/\ registration'.result # "none" =>
            (registration'.result = "OK" <=> Admitted(registration'))
       /\ (registration' # registration /\ registration'.result # "OK") =>
            streams' = streams
       /\ (registration' # registration /\ registration'.result = "OK") =>
            registration'.node \in streams']_vars

\* An unprovisioned node was turned away by the protected endpoint.
RegistrationAdmissionWitness ==
    /\ registration.endpoint = "protected" /\ registration.status = "unprovisioned"
    /\ registration.result = "PermissionDenied" /\ registration.node \notin streams

----------------------------------------------------------------------------
(* C23: RequestWithRetry waits only between two attempts: no thread waits  *)
(* after its third attempt, and a forwarded call that failed three times   *)
(* has waited exactly twice.                                               *)
WaitsOnlyBetweenAttempts ==
    \A t \in Threads : (InRpc(t) /\ ~TargetsOwnNode(t)) =>
        /\ pc[t] = "waiting" => attempts[t] < 3
        /\ (pc[t] = "done" /\ attempts[t] = 3 /\ status[t] \notin {"OK", "WrongState"}) =>
              waits[t] = 2

----------------------------------------------------------------------------
(* C24: every call put on a node stream carries the timeout of its         *)
(* operation: 300 s for StartProvisioning, FinishProvisioning and          *)
(* Deprovision, 60 s for PauseNode, ResumeNode, GetCertTypes, CreateKey    *)
(* and ApplyCert.                                                          *)
ForwardedTimeouts ==
    \A t \in Threads : InRpc(t) =>
        /\ frames[t] = 0 => passedTimeout[t] = 0
        /\ frames[t] >= 1 =>
              passedTimeout[t] =
                  (IF op[t] \in {"StartProvisioning", "FinishProvisioning", "Deprovision"}
                   THEN 300 ELSE 60)

\* A forwarded Deprovision was called with the provisioning timeout.
ForwardedTimeoutsWitness ==
    \E t \in Threads :
        /\ pc[t] = "done" /\ op[t] = "Deprovision" /\ nodeID[t] = "node1"
        /\ frames[t] >= 1 /\ passedTimeout[t] = 300 /\ status[t] = "OK"

----------------------------------------------------------------------------
(* C22: a client subscribed through SubscribeSubjectsChanged has received, *)
(* as one message each, exactly the lists dispatched since it subscribed,  *)
(* each with its elements in the order of the list, in dispatch order; a   *)
(* stream that was dropped or has ended received a prefix of them, and a    *)
(* node-changed subscriber receives none.                                  *)
DispatchedSince(t) ==
    [i \in 1..(Len(dispatched) - subscribedAt[t]) |->
        [subjects |-> dispatched[subscribedAt[t] + i]]]

IsPrefix(p, q) == Len(p) <= Len(q) /\ \A i \in 1..Len(p) : p[i] = q[i]

SubjectsFanOut ==
    \A t \in Threads :
        /\ (op[t] = "SubscribeSubjectsChanged" /\ pc[t] = "sw_stream" /\ t \notin swUnblocked) =>
              received[t] = DispatchedSince(t)
        /\ op[t] = "SubscribeSubjectsChanged" => IsPrefix(received[t], DispatchedSince(t))
        /\ op[t] # "SubscribeSubjectsChanged" => received[t] = <<>>

\* Two subscribers have both received the two lists that were dispatched.
SubjectsFanOutWitness ==
    /\ Len(dispatched) = 2 /\ dispatched[1] # dispatched[2]
    /\ \A t \in Threads :
          /\ op[t] = "SubscribeSubjectsChanged" /\ pc[t] = "sw_stream"
          /\ received[t] = <<[subjects |-> dispatched[1]], [subjects |-> dispatched[2]]>>

----------------------------------------------------------------------------
(* C25: the frame HandleSubscription was last given reached the observer    *)
(* only if it is a subscription notification of a registered id whose list *)
(* differs from the subjects cached before it; with an unknown id, an       *)
(* invalid value, more subjects than the array holds or the cached list,    *)
(* the observer was not called and the cached subjects are as before.       *)
ObserverNotifiedOnChange ==
    note.frame # NoFrame =>
        /\ observerCalls # <<>> =>
              /\ note.frame.action = "subscription"
              /\ note.registered
              /\ note.frame.valid
              /\ note.frame.list # note.cached
              /\ observerCalls = <<note.frame.list>>
              /\ note.after = note.frame.list
        /\ (\/ ~note.registered
            \/ ~note.frame.valid
            \/ Len(note.frame.list) > cMaxSubjectIDSize
            \/ note.frame.list = note.cached) =>
              /\ observerCalls = <<>>
              /\ note.after = note.cached

\* A notification replaced a non-empty cached list and reached the observer.
ObserverNotifiedOnChangeWitness ==
    /\ observerCalls # <<>>
    /\ note.cached # <<>>
    /\ note.registered

(* C26: the HandleConnection thread leaves WaitForEvent for Disconnect on  *)
(* every event but CLOSED and ends on CLOSED; a WSException of Connect or  *)
(* of the subscribe request takes it to Disconnect; Disconnect is followed *)
(* by the delay, the delay by Connect unless stop was requested, Connect   *)
(* by the subscribe request; an ended thread calls nothing more.           *)
ReconnectLoop ==
    [][/\ (hcPc = "wait_event" /\ hcPc' # hcPc) =>
             hcPc' = IF mWSClientErrorEvent = "CLOSED" THEN "stopped" ELSE "disconnect"
       /\ (hcPc \in {"connect", "subscribe", "subscribe_wait"} /\ hcExc' = "WSException") =>
             hcPc' = "disconnect"
       /\ (hcPc = "disconnect" /\ hcPc' # hcPc) =>
             /\ hcPc' = "delay"
             /\ hcLast' = "Disconnect"
             /\ wsCall'.name = "Disconnect"
             /\ ~mIsConnected'
       /\ (hcPc = "delay" /\ hcPc' # hcPc) =>
             hcPc' = IF mStop THEN "stopped" ELSE "connect"
       /\ (hcPc = "connect" /\ hcPc' # hcPc) =>
             /\ hcLast' = "Connect"
             /\ wsCall'.name = "Connect"
             /\ hcPc' \in {"subscribe", "disconnect"}
       /\ (hcPc = "subscribe" /\ hcPc' # hcPc) =>
             /\ hcLast' = "Subscribe"
             /\ hcPc' \in {"subscribe_wait", "disconnect"}
       /\ hcPc = "stopped" => (hcPc' = "stopped" /\ hcLast' = hcLast)]_vars

\* After a FAILED event the thread has disconnected, waited, connected
\* again and sent the subscribe request again.
ReconnectLoopWitness ==
    /\ hcPc = "subscribe_wait"
    /\ hcLast = "Subscribe"
    /\ nextId = 2
    /\ lastConnOp = "Connect"
    /\ mSubscriptionMap # {}

(* C27 as stated: a finished SendRequest has returned the response frame   *)
(* that carries its request id, or has thrown eTimeout after the whole     *)
(* timeout; a waiting one has waited no longer than the timeout.           *)
SendRequestResponseOrTimeout ==
    /\ req.state = "returned" =>
          req.response.requestId = req.id /\ req.response.action # "subscription"
    /\ req.state = "thrown" =>
          req.error = "eTimeout" /\ req.elapsed = mWebSocketTimeout /\ req.response = NoFrame
    /\ req.state = "waiting" => req.elapsed <= mWebSocketTimeout

(* C27 amended: as above, but SendRequest throws eFailed at once, without  *)
(* waiting, when AsyncSendMessage throws.                                  *)
SendRequestOutcome ==
    /\ req.state = "returned" =>
          req.response.requestId = req.id /\ req.response.action # "subscription"
    /\ req.state = "thrown" =>
          \/ req.error = "eTimeout" /\ req.elapsed = mWebSocketTimeout /\ req.response = NoFrame
          \/ req.error = "eFailed" /\ req.elapsed = 0 /\ req.response = NoFrame
    /\ req.state = "waiting" => req.elapsed <= mWebSocketTimeout

\* The second request of the behaviour has returned its response.
SendRequestOutcomeWitness ==
    /\ req.state = "returned"
    /\ req.id = 2
    /\ req.owner = "client"

NotConnectedSendFails ==
    (wsCall.name = "AsyncSendMessage" /\ wsCall.message # "" /\ ~wsCall.connected) =>
        (wsCall.error = "eFailed" /\ wsCall.written = 0)

\* The client was connected and closed, and the next message failed.
NotConnectedSendFailsWitness ==
    /\ wsCall.name = "AsyncSendMessage"
    /\ wsCall.message # ""
    /\ ~wsCall.connected
    /\ wsCall.last = "Close"
    /\ wsCall.error = "eFailed"

(* C30 as stated: the application is initialised only with a recognised    *)
(* identifier plugin, or none, and recognised cert-module plugins.         *)
UnknownPluginsFailAtLoad ==
    app.pc \in {"initialized", "started"} =>
        /\ app.identifier \in {"fileidentifier", "visidentifier", ""}
        /\ \A i \in 1..Len(app.modules) : app.modules[i].plugin = cPKCS11CertModule

----------------------------------------------------------------------------
----------------------------------------------------------------------------
(* C32: when a forwarded PauseNode, ResumeNode, FinishProvisioning or       *)
(* Deprovision came back with transport OK and the error field set, the     *)
(* statuses NodeManager holds stay as they are.                             *)
RemoteErrorKeepsStatus ==
    [][\A t \in Threads :
          (/\ op[t] \in StatusOps
           /\ ~TargetsOwnNode(t)
           /\ pc[t] = "set_nm"
           /\ respErr[t] # "none"
           /\ pc'[t] # pc[t]) => nmStatus' = nmStatus]_vars

----------------------------------------------------------------------------
(* C33: while no status-changing RPC on the own node is in progress,        *)
(* NodeInfoProvider and NodeManager hold the same status of the own node.   *)
OwnStatusConsistent ==
    (\A t \in Threads :
        ~(op[t] \in StatusOps /\ TargetsOwnNode(t) /\ pc[t] \notin {"idle", "done"})) =>
        nipStatus = nmStatus[OwnNodeID]

----------------------------------------------------------------------------
(* C34: every attempt of a forwarded RPC reads the registry: it puts the    *)
(* request on the stream exactly when the node has a stream registered at   *)
(* that moment, whatever the attempts before it found.                      *)
FreshLookupPerAttempt ==
    [][\A t \in Threads :
          (pc[t] = "request" /\ attempts'[t] = attempts[t] + 1) =>
              /\ lookups'[t] = lookups[t] + 1
              /\ (frames'[t] = frames[t] + 1) <=> (nodeID[t] \in streams)
              /\ (frames'[t] = frames[t]) <=> (nodeID[t] \notin streams)]_vars

\* A StartProvisioning found no stream, the node registered during the
\* wait, and the second attempt succeeded.
FreshLookupPerAttemptWitness ==
    \E t \in Threads :
        /\ pc[t] = "done" /\ op[t] = "StartProvisioning" /\ status[t] = "OK"
        /\ attempts[t] = 2 /\ frames[t] = 1 /\ waits[t] = 1

----------------------------------------------------------------------------
(* C35: once Stop has set the stop signal and closed the websocket client   *)
(* and waits for the HandleConnection thread, that thread is never blocked  *)
(* in WaitForEvent on a connection with no event posted, where nothing but  *)
(* the server can release it.                                               *)
StopReleasesConnectionThread ==
    ~(/\ visPc = "joining"
      /\ hcPc = "wait_event"
      /\ mWSClientErrorEvent = "none"
      /\ mIsConnected)

----------------------------------------------------------------------------
(* The routing of a received frame: a frame given to the pending requests  *)
(* completes the request of its id and does not reach the subscription     *)
(* handler; a frame given to the subscription handler is a notification or *)
(* has the id of no pending request.                                       *)
RoutedAsClaimed ==
    /\ Cardinality(delivery'.to) = 1
    /\ delivery'.to = {"SetResponse"} =>
          /\ delivery'.class = "response"
          /\ req.pending /\ req'.response.requestId = req.id
          /\ req' = [req EXCEPT !.response = req'.response]
          /\ UNCHANGED <<note, mSubjects, observerCalls>>
    /\ delivery'.to = {"HandleSubscription"} =>
          /\ req' = req
          /\ note'.frame.action = "subscription"
                \/ ~(req.pending /\ note'.frame.requestId = req.id)

(* C37 as stated: every received frame that is a JSON object with an       *)
(* action tag is delivered to exactly one consumer, the pending request of *)
(* its requestId or else the subscription handler.                         *)
FrameDeliveredOnce ==
    [][(rxCount' = rxCount + 1 /\ delivery'.class \notin {"not json", "no action tag"})
          => RoutedAsClaimed]_vars

(* C37 amended: every received frame that is a JSON object with an action  *)
(* tag and, unless its action is "subscription", a non-empty requestId is  *)
(* delivered to exactly one consumer, the pending request of its requestId *)
(* or else the subscription handler.                                       *)
IdentifiedFrameDeliveredOnce ==
    [][(rxCount' = rxCount + 1 /\ delivery'.class \in {"subscription", "response"})
          => RoutedAsClaimed]_vars

\* A response has completed the pending request without reaching the
\* subscription handler, which has seen another frame before.
IdentifiedFrameDeliveredOnceWitness ==
    /\ delivery = [class |-> "response", to |-> {"SetResponse"}]
    /\ req.state = "waiting" /\ req.response.requestId = req.id
    /\ note.frame # NoFrame /\ note.frame # req.response

(* C38: a request is in the pending requests only while its SendRequest    *)
(* waits; after any exit the entry is gone, so a response of that id       *)
(* received later changes no request and goes to the subscription handler, *)
(* and a request only ever holds a response of its own id.                 *)
PendingOnlyWhileWaiting ==
    [][/\ req'.pending <=> req'.state = "waiting"
       /\ req'.response # NoFrame => req'.response.requestId = req'.id
       /\ (rxCount' = rxCount + 1 /\ req.state \in {"returned", "thrown"}) =>
             /\ req' = req
             /\ delivery'.to # {"SetResponse"}]_vars

\* SendRequest timed out and the response of its id, received afterwards,
\* went to the subscription handler.
PendingOnlyWhileWaitingWitness ==
    /\ req.state = "thrown" /\ req.error = "eTimeout" /\ req.response = NoFrame
    /\ delivery = [class |-> "response", to |-> {"HandleSubscription"}]
    /\ note.frame.requestId = req.id

(* C39: a received frame that is no JSON, has no action tag, or has a      *)
(* missing or empty requestId is dropped: it reaches no consumer, the      *)
(* receive loop goes on and no connection failure is signalled.            *)
MalformedFrameDropped ==
    [][(/\ rxCount' = rxCount + 1
        /\ delivery'.class \in {"not json", "no action tag", "no requestId",
                                 "empty requestId"})
          => /\ delivery'.to = {}
             /\ rxRunning' /\ mWSClientErrorEvent' = mWSClientErrorEvent
             /\ UNCHANGED <<req, note, mSubjects, observerCalls>>]_vars

(* C36: a notification received before the response never keeps the       *)
(* response from a waiting GetSystemID: the receive thread is never held   *)
(* in the notification handler while the request of GetSystemID waits for  *)
(* its response.                                                           *)
NotificationNeverBlocksResponse ==
    ~(/\ rxBlocked # NoFrame
      /\ getPc = "wait_response"
      /\ getReq.response = NoFrame)

(* C40: HandleConnection clears the cached values in the step that sets    *)
(* the connected event; a GetSystemID call that finds a cached value       *)
(* returns it without a request; and while the connected event is set the  *)
(* value it returns was fetched on the present connection.                 *)
CacheFollowsConnection ==
    [][/\ (hcPc = "subscribe_wait" /\ ~mWSClientIsConnected /\ mWSClientIsConnected') =>
             mSystemId' = 0 /\ mSubjects' = <<>>
       /\ (getCount' = getCount + 1 /\ mSystemId # 0) =>
             /\ getResult' = [value |-> mSystemId, error |-> "none"]
             /\ sent' = sent /\ getReq' = getReq
             /\ mWSClientIsConnected => mSystemId = connEpoch]_vars

====
